---- MODULE Spec2Model ----
(***************************************************************************)
(* A model of the audacity-scripts repository:                             *)
(*   - AudacityPipe (src/src/audacity_pipe/pipe.py): the pipe client,      *)
(*     its send/receive framing and timeout, against a host application    *)
(*     that answers the commands it reads, possibly late;                  *)
(*   - export_tracks_individually and export_clips_individually: the two   *)
(*     export workflows, one step per command they send, against the       *)
(*     host's track state (mute flags, selection, audio, clipboard), with  *)
(*     quick_command as a third, one-command user of the with statement;   *)
(*   - connect(), disconnect(), send_command() and do_command() called in  *)
(*     any order;                                                          *)
(*   - export_clips_individually's search for an unused file name;         *)
(*   - the text functions: the clean-up of a response, sanitize_filename,  *)
(*     the file name of a clip, and the commands built by Commands.        *)
(***************************************************************************)
EXTENDS Integers, Sequences, FiniteSets, TLC

(***************************************************************************)
(* Bounds of the model.                                                    *)
(***************************************************************************)
\* Number of do_command calls made on one AudacityPipe.
MaxCmds == 3
\* The configured timeout, in units of the read loop's sleep interval.
Timeout == 2
\* Lines the inbound pipe holds unread at a time.
MaxInbox == 2
\* Non-blank lines of one reply of the host.
MaxReplyLines == 2
\* Blank lines the inbound pipe carries besides the replies' terminators.
MaxNoise == 2

\* Calls made on one AudacityPipe by a caller of connect / disconnect / send_command.
MaxCalls == 4
\* The numeric suffixes a file of the output directory may carry (0: none).
MaxSuffix == 3

\* The elapsed time of one call is tracked up to this value.
MaxElapsed == Timeout + 3

VARIABLES
    \* ---- AudacityPipe and the two pipes ----
    is_connected,   \* AudacityPipe._is_connected
    to_handle,      \* AudacityPipe.to_pipe: 0 is None, k is the k-th file object opened
    from_handle,    \* AudacityPipe.from_pipe: 0 is None, k is the k-th file object opened
    opened,         \* number of file objects opened so far
    to_pipe,        \* commands written to the outbound pipe, not yet answered
    from_pipe,      \* lines written by the host to the inbound pipe, not yet read
    hlines,         \* host: non-blank lines emitted of the reply in progress
    noise,          \* blank lines delivered so far that end no reply
    rpc,            \* position of the client: "idle", "reading", "returned", "timeout"
    response,       \* receive_response: the accumulated lines
    elapsed,        \* receive_response: time.time() - start_time
    read_log,       \* the lines the current call has read, in order
    ncalls,         \* number of do_command calls made; the id of the current command
    \* ---- the export workflows ----
    workflow,       \* "tracks": export_tracks_individually, "clips": export_clips_individually
    pc,             \* position of the workflow
    loop_i,         \* the 1-based index of the enumerate() loop over tracks / clips
    step,           \* index of the next command of the current command sequence
    num_tracks,     \* len(tracks_data) (tracks) / len(tracks_data_updated) (clips)
    track_mute_status, \* clips: the mute flags read by the first query
    clips_to_export,   \* clips: the clips kept by the mute filter
    temp_track_idx, \* clips: index of the scratch track
    exported_count, \* clips: the counter reported at the end
    exit_status,    \* 1 once sys.exit(1) was called, else 0
    outcome,        \* how the workflow ended, "running" before
    \* ---- the host application's project ----
    host_mute,      \* mute flag of each track, in track order
    host_sel,       \* the selected tracks (0-based indices)
    host_time,      \* the selected time range <<start, end>>
    host_audio,     \* the length of the audio on each track, in track order
    host_clipboard, \* the length of the audio on the clipboard
    host_clips,     \* the clips GetInfo: Type=Clips lists
    host_mute0,     \* the mute flags before the run
    \* ---- what the run did ----
    sent,           \* the commands sent since the current loop item / pass began
    verbs,          \* the verbs of all the commands sent
    queries,        \* number of GetInfo commands sent
    exports,        \* one record per Export2 sent: the host state at that moment
    ran,            \* clips: ids of the clips whose command sequence was started
    skipped,        \* clips: ids of the clips reported as skipped
    failed,         \* clips: ids of the clips whose sequence raised
    failed_pc,      \* position at which the run was aborted (a fatal failure, an
                    \* interrupt), "none" before
    report,         \* clips: the <<exported, total>> figures of the final report
    \* ---- a caller of the connection methods ----
    calls,          \* number of calls made
    last_call,      \* the last call: the method, whether it raised, the connection before
    \* ---- the output directory and the search for a free file name ----
    existing,       \* the files of the output directory, each a number: n
                    \* for name_n.ext (0: name.ext), see Suffixed
    written,        \* the files another process created during the search
    counter,        \* export_clips_individually: counter
    output_path,    \* export_clips_individually: output_path, as a number
    base_output_path, \* export_clips_individually: base_output_path, the
                    \* path {safe_name}.ext of the clip at hand
    clip_exports,   \* the clips of the run that reached their export: the
                    \* path, the host's reply, whether the clip was counted
                    \* and whether its file was created
    npc,            \* position of the loop: "idle", "probing", "chosen",
                    \* "exported"
    \* ---- a call of one of the text functions ----
    text_in,        \* the function called and its arguments
    text_out,       \* what it returned
    text_pc,        \* "idle", "ready" before the call, "done" after it
    \* ---- callers sharing one AudacityPipe ----
    threads         \* for each caller: where it is in do_command, the number of
                    \* its command, the lines of its response

pipeRest == <<to_pipe, from_pipe, hlines, noise, rpc, response, elapsed, read_log, ncalls>>

connRest == <<to_handle, from_handle, opened>>

pipeVars == <<is_connected, connRest, pipeRest>>

caller == <<calls, last_call>>

nameVars == <<existing, written, counter, output_path, base_output_path, clip_exports, npc>>

textVars == <<text_in, text_out, text_pc>>

sharedVars == <<threads>>

\* What the pipe client's calls and the workflows leave alone.
backstage == <<caller, nameVars, textVars, sharedVars>>

inputs == <<workflow, host_clips, host_mute0>>

captured == <<num_tracks, track_mute_status, clips_to_export, temp_track_idx>>

tally == <<exported_count, exports, ran, skipped, failed>>

hostVars == <<host_mute, host_sel, host_time, host_audio, host_clipboard>>

logVars == <<sent, verbs, queries>>

wfVars == <<inputs, pc, loop_i, step, captured, tally, hostVars, logVars, exit_status, outcome,
            failed_pc, report>>

vars == <<pipeVars, wfVars, backstage>>

(***************************************************************************)
(* Lines of the inbound pipe.  A line is blank ("\n"), whitespace only     *)
(* (" \n"), or text belonging to the reply to command `re`.                *)
(***************************************************************************)
BlankLine == [kind |-> "nl", re |-> 0]

SpaceLine == [kind |-> "sp", re |-> 0]

DataLine(k) == [kind |-> "data", re |-> k]

\* line.strip() == ""
IsBlank(line) == line.kind \in {"nl", "sp"}

\* The break condition of the read loop without its test of the accumulated
\* response: any blank line ends the response.
EndsResponseAnyBlank(line, resp) == IsBlank(line)

\* pipe.py 184-186: a blank line ends the response only if something was accumulated.
EndsResponse(line, resp) == IsBlank(line) /\ resp # <<>>

\* pipe.py 178: the timeout test, made only when readline() returned nothing.
TimedOut(e) == e > Timeout

(***************************************************************************)
(* The connection of an AudacityPipe: the flag and the two file objects.   *)
(***************************************************************************)
Conn ==
    [is_connected |-> is_connected, to_handle |-> to_handle,
     from_handle |-> from_handle, opened |-> opened]

SetConn(c) ==
    /\ is_connected' = c.is_connected
    /\ to_handle' = c.to_handle
    /\ from_handle' = c.from_handle
    /\ opened' = c.opened

\* What a call of connect() finds: the platform, whether each pipe's name
\* exists and whether open() of it succeeds (a name that does not exist is
\* not opened).
ConnectEnvs ==
    {e \in [platform : {"Windows", "Unix"}, to_exists : BOOLEAN, from_exists : BOOLEAN,
            to_opens : BOOLEAN, from_opens : BOOLEAN] :
        (e.to_opens => e.to_exists) /\ (e.from_opens => e.from_exists)}

\* Both pipes exist and open.
EndpointsFine(e) == e.to_opens /\ e.from_opens

\* connect() with the flag set before the pipes are opened.
ConnectResultFlagFirst(c, e) ==
    IF c.is_connected THEN [conn |-> c, raised |-> FALSE]
    ELSE IF e.platform = "Unix" /\ (~e.to_exists \/ ~e.from_exists)
    THEN [conn |-> [c EXCEPT !.is_connected = TRUE], raised |-> TRUE]
    ELSE IF ~e.to_opens THEN [conn |-> [c EXCEPT !.is_connected = TRUE], raised |-> TRUE]
    ELSE IF ~e.from_opens
    THEN [conn |-> [c EXCEPT !.is_connected = TRUE, !.to_handle = c.opened + 1,
                             !.opened = c.opened + 1],
          raised |-> TRUE]
    ELSE [conn |-> [is_connected |-> TRUE, to_handle |-> c.opened + 1,
                    from_handle |-> c.opened + 2, opened |-> c.opened + 2],
          raised |-> FALSE]

\* connect() without its early return.
ConnectResultAlwaysOpens(c, e) ==
    IF e.platform = "Unix" /\ (~e.to_exists \/ ~e.from_exists)
    THEN [conn |-> c, raised |-> TRUE]
    ELSE IF ~e.to_opens THEN [conn |-> c, raised |-> TRUE]
    ELSE IF ~e.from_opens
    THEN [conn |-> [c EXCEPT !.to_handle = c.opened + 1, !.opened = c.opened + 1],
          raised |-> TRUE]
    ELSE [conn |-> [is_connected |-> TRUE, to_handle |-> c.opened + 1,
                    from_handle |-> c.opened + 2, opened |-> c.opened + 2],
          raised |-> FALSE]

\* pipe.py 58-107, connect(): nothing is done when connected; on Unix both
\* names must exist; the outbound pipe is opened and assigned, then the
\* inbound one; the flag is set last.  Any failure raises AudacityError and
\* leaves what was assigned before it.
ConnectResult(c, e) ==
    IF c.is_connected THEN [conn |-> c, raised |-> FALSE]
    ELSE IF e.platform = "Unix" /\ (~e.to_exists \/ ~e.from_exists)
    THEN [conn |-> c, raised |-> TRUE]
    ELSE IF ~e.to_opens THEN [conn |-> c, raised |-> TRUE]
    ELSE IF ~e.from_opens
    THEN [conn |-> [c EXCEPT !.to_handle = c.opened + 1, !.opened = c.opened + 1],
          raised |-> TRUE]
    ELSE [conn |-> [is_connected |-> TRUE, to_handle |-> c.opened + 1,
                    from_handle |-> c.opened + 2, opened |-> c.opened + 2],
          raised |-> FALSE]

\* What a call of disconnect() finds: whether close() of each file object raises.
CloseEnvs == [to_close_raises : BOOLEAN, from_close_raises : BOOLEAN]

\* disconnect() with the error of close() let through.
DisconnectResultPropagates(c, e) ==
    IF c.to_handle # 0 /\ e.to_close_raises THEN [conn |-> c, raised |-> TRUE]
    ELSE IF c.from_handle # 0 /\ e.from_close_raises
    THEN [conn |-> [c EXCEPT !.to_handle = 0], raised |-> TRUE]
    ELSE [conn |-> [c EXCEPT !.to_handle = 0, !.from_handle = 0, !.is_connected = FALSE],
          raised |-> FALSE]

\* disconnect() closing the outbound pipe only.
DisconnectResultOutboundOnly(c, e) ==
    [conn |-> [c EXCEPT !.to_handle = 0, !.is_connected = FALSE], raised |-> FALSE]

\* pipe.py 109-126, disconnect(): each file object that is set is closed, an
\* error of close() is swallowed, and the attribute is set to None; the flag
\* is cleared.
DisconnectResult(c, e) ==
    LET c1 == IF c.to_handle # 0 THEN [c EXCEPT !.to_handle = 0] ELSE c
        c2 == IF c1.from_handle # 0 THEN [c1 EXCEPT !.from_handle = 0] ELSE c1
    IN [conn |-> [c2 EXCEPT !.is_connected = FALSE], raised |-> FALSE]

\* pipe.py 142-153, send_command(): raises when not connected, when there is
\* no outbound file object, or when the write fails.
SendRaises(c, write_fails) == ~c.is_connected \/ c.to_handle = 0 \/ write_fails

\* The line feed that ends a command on the outbound pipe.
LF == "\n"

\* pipe.py 150, send_command(): what is written for a command.
SendText(command) == command \o <<LF>>

\* How the read of a reply can end: a reply arrives, or the wait times out.
ReadEnds == {"answered", "timeout"}

DoCommandResultNoConnect(c, e, command, write_fails, reading) ==
    IF SendRaises(c, write_fails)
    THEN [conn |-> c, raised |-> TRUE, written |-> <<>>,
          events |-> IF c.is_connected /\ c.to_handle # 0 THEN <<"write">> ELSE <<>>]
    ELSE [conn |-> c, raised |-> reading = "timeout", written |-> SendText(command),
          events |-> <<"write", "flush", "read">>]

\* pipe.py 202-222, do_command(): connect() unless the flag is set, then
\* send_command() (write, flush), then receive_response().  `events` lists
\* the steps in the order they happen, `written` what reached the outbound
\* pipe; the first step that raises ends the call.
DoCommandResult(c, e, command, write_fails, reading) ==
    LET r == IF c.is_connected THEN [conn |-> c, raised |-> FALSE]
                               ELSE ConnectResult(c, e)
        connects == IF c.is_connected THEN <<>> ELSE <<"connect">>
    IN  IF r.raised
        THEN [conn |-> r.conn, raised |-> TRUE, written |-> <<>>, events |-> connects]
        ELSE IF SendRaises(r.conn, write_fails)
        THEN [conn |-> r.conn, raised |-> TRUE, written |-> <<>>,
              events |-> IF r.conn.is_connected /\ r.conn.to_handle # 0
                         THEN connects \o <<"write">> ELSE connects]
        ELSE [conn |-> r.conn, raised |-> reading = "timeout",
              written |-> SendText(command),
              events |-> connects \o <<"write", "flush", "read">>]

(***************************************************************************)
(* Text.  A string is the sequence of its characters; the operators below  *)
(* are Python's str.strip, str.replace and str.endswith.                   *)
(***************************************************************************)
\* str.strip() without argument removes whitespace.
Whitespace == {" ", LF, "\t", "\r"}

RECURSIVE StripLeft(_, _)
StripLeft(text, chars) ==
    IF text # <<>> /\ Head(text) \in chars THEN StripLeft(Tail(text), chars) ELSE text

RECURSIVE StripRight(_, _)
StripRight(text, chars) ==
    IF text # <<>> /\ text[Len(text)] \in chars
    THEN StripRight(SubSeq(text, 1, Len(text) - 1), chars)
    ELSE text

Strip(text, chars) == StripRight(StripLeft(text, chars), chars)

StartsWith(text, prefix) ==
    Len(text) >= Len(prefix) /\ SubSeq(text, 1, Len(prefix)) = prefix

EndsWith(text, suffix) ==
    Len(text) >= Len(suffix)
        /\ SubSeq(text, Len(text) - Len(suffix) + 1, Len(text)) = suffix

\* str.replace(old, new): every occurrence of old, leftmost first.
RECURSIVE Replace(_, _, _)
Replace(text, old, new) ==
    IF text = <<>> THEN <<>>
    ELSE IF StartsWith(text, old)
         THEN new \o Replace(SubSeq(text, Len(old) + 1, Len(text)), old, new)
         ELSE <<Head(text)>> \o Replace(Tail(text), old, new)

\* "BatchCommand finished: OK"
Sentinel ==
    <<"B", "a", "t", "c", "h", "C", "o", "m", "m", "a", "n", "d", " ",
      "f", "i", "n", "i", "s", "h", "e", "d", ":", " ", "O", "K">>

\* pipe.py 190: response += line, each line with its line feed.
RECURSIVE Accumulated(_)
Accumulated(lines) ==
    IF lines = <<>> THEN <<>> ELSE Head(lines) \o <<LF>> \o Accumulated(Tail(lines))

\* pipe.py 193-194: the clean-up of the accumulated response.
CleanResponse(accumulated) ==
    Strip(Replace(Strip(accumulated, Whitespace), Sentinel, <<>>), Whitespace)

(***************************************************************************)
(* export_clips_individually.py: sanitize_filename and the file name of a  *)
(* clip.                                                                   *)
(***************************************************************************)
\* Line 39: the characters of the class [<>:"/\\|?*].
InvalidChars == {"<", ">", ":", "\"", "/", "\\", "|", "?", "*"}

\* Lines 43-44: the longest name returned.
NameLimit == 200

\* Line 47: "unnamed"
Unnamed == <<"u", "n", "n", "a", "m", "e", "d">>

\* Line 39: re.sub replaces each invalid character by an underscore.
SubInvalid(name) ==
    [n \in 1..Len(name) |-> IF name[n] \in InvalidChars THEN "_" ELSE name[n]]

sanitize_filename_kept(name) ==
    LET stripped == Strip(name, {".", " "})
        limited == IF Len(stripped) > NameLimit THEN SubSeq(stripped, 1, NameLimit)
                                                ELSE stripped
    IN  IF limited = <<>> THEN Unnamed ELSE limited

\* Lines 28-48.
sanitize_filename(name) ==
    LET replaced == SubInvalid(name)
        stripped == Strip(replaced, {".", " "})
        limited == IF Len(stripped) > NameLimit THEN SubSeq(stripped, 1, NameLimit)
                                                ELSE stripped
    IN  IF limited = <<>> THEN Unnamed ELSE limited

\* Lines 212-215: the file name tried first; with an empty prefix both
\* branches give the same text.
OutputFilename(prefix, safe_name, file_extension) ==
    IF prefix # <<>> THEN prefix \o safe_name \o <<".">> \o file_extension
                     ELSE safe_name \o <<".">> \o file_extension

(***************************************************************************)
(* commands.py: the text of a command.  A command is the sequence of its   *)
(* pieces: the verb with its colon, spaces, keys with their equals sign,   *)
(* values, and the characters of names and paths.  An argument is <<>>     *)
(* when it is left out (None) and <<v>> when v is passed.                  *)
(***************************************************************************)
None == <<>>

\* f"{1 if x else 0}"
Flag(x) == IF x THEN "1" ELSE "0"

\* f"{x}" for a bool x
FormatBool(x) == IF x THEN "True" ELSE "False"

\* if x is not None: params.append(f"Key={1 if x else 0}")
FlagParam(key, x) == IF x = None THEN <<>> ELSE <<<<key, Flag(x[1])>>>>

\* if x is not None: params.append(f"Key={x}"), x a number
NumberParam(key, x) == IF x = None THEN <<>> ELSE <<<<key, ToString(x[1])>>>>

\* if x is not None: params.append(f"Key={x}"), x a string
TextParam(key, x) == IF x = None THEN <<>> ELSE <<<<key>> \o x[1]>>

\* if x is not None: params.append(f"Key='{x}'")
QuotedParam(key, x) == IF x = None THEN <<>> ELSE <<<<key, "'">> \o x[1] \o <<"'">>>>

\* " ".join(params)
RECURSIVE Join(_)
Join(params) ==
    IF params = <<>> THEN <<>>
    ELSE IF Len(params) = 1 THEN params[1]
    ELSE params[1] \o <<" ">> \o Join(Tail(params))

OptionalCommandSpaced(verb, params) == <<verb, " ">> \o Join(params)

\* "Verb:" + (" " + " ".join(params) if params else "")
OptionalCommand(verb, params) ==
    <<verb>> \o (IF params # <<>> THEN <<" ">> \o Join(params) ELSE <<>>)

\* commands.py 34-43
open_project(filename, add_to_history) ==
    <<"OpenProject2:", " ", "Filename=", "'">> \o filename
        \o <<"'", " ", "AddToHistory=", FormatBool(add_to_history)>>

\* commands.py 45-56
save_project(filename, add_to_history, compress) ==
    <<"SaveProject2:", " ", "Filename=", "'">> \o filename
        \o <<"'", " ", "AddToHistory=", FormatBool(add_to_history),
             " ", "Compress=", FormatBool(compress)>>

\* commands.py 58-65
import_audio(filename) == <<"Import2:", " ", "Filename=", "'">> \o filename \o <<"'">>

\* commands.py 67-78: the backslashes of the path become forward slashes.
export_audio(filename, num_channels) ==
    LET safe_path == Replace(filename, <<"\\">>, <<"/">>) IN
    <<"Export2:", " ", "Filename=", "\"">> \o safe_path
        \o <<"\"", " ", "NumChannels=", ToString(num_channels)>>

\* commands.py 115-130
select_frequencies(high, low) ==
    OptionalCommand("SelectFrequencies:",
        NumberParam("High=", high) \o NumberParam("Low=", low))

\* commands.py 133-152
set_track_status(name, selected, focused) ==
    OptionalCommand("SetTrackStatus:",
        QuotedParam("Name=", name) \o FlagParam("Selected=", selected)
            \o FlagParam("Focused=", focused))

\* commands.py 154-177
set_track_audio(mute, solo, gain, pan) ==
    OptionalCommand("SetTrackAudio:",
        FlagParam("Mute=", mute) \o FlagParam("Solo=", solo)
            \o NumberParam("Gain=", gain) \o NumberParam("Pan=", pan))

\* commands.py 281-300
set_clip(at, color, start) ==
    OptionalCommand("SetClip:",
        NumberParam("At=", at) \o TextParam("Color=", color)
            \o NumberParam("Start=", start))

\* commands.py 302-321
set_envelope(time, value, delete) ==
    OptionalCommand("SetEnvelope:",
        NumberParam("Time=", time) \o NumberParam("Value=", value)
            \o FlagParam("Delete=", delete))

\* commands.py 323-348: the label number is always sent.
set_label(label, text, start, end, selected) ==
    <<"SetLabel:", " ">>
        \o Join(<<<<"Label=", ToString(label)>>>> \o QuotedParam("Text=", text)
                 \o NumberParam("Start=", start) \o NumberParam("End=", end)
                 \o FlagParam("Selected=", selected))

\* commands.py 350-381
set_project(name, rate, x, y, width, height) ==
    OptionalCommand("SetProject:",
        QuotedParam("Name=", name) \o NumberParam("Rate=", rate)
            \o NumberParam("X=", x) \o NumberParam("Y=", y)
            \o NumberParam("Width=", width) \o NumberParam("Height=", height))

\* commands.py 392-402
set_preference(name, value, reload) ==
    <<"SetPreference:", " ", "Name=", "'">> \o name \o <<"'", " ", "Value=", "'">>
        \o value \o <<"'", " ", "Reload=", Flag(reload)>>

\* commands.py 405-418
normalize(peak_level, apply_gain, remove_dc, stereo_independent) ==
    <<"Normalize:", " ", "PeakLevel=", ToString(peak_level),
      " ", "ApplyGain=", FormatBool(apply_gain),
      " ", "RemoveDcOffset=", FormatBool(remove_dc),
      " ", "StereoIndependent=", FormatBool(stereo_independent)>>

\* commands.py 446-463
compressor(threshold, noise_floor, ratio, attack_time, release_time, normalize_) ==
    <<"Compressor:", " ", "Threshold=", ToString(threshold),
      " ", "NoiseFloor=", ToString(noise_floor), " ", "Ratio=", ToString(ratio),
      " ", "AttackTime=", ToString(attack_time),
      " ", "ReleaseTime=", ToString(release_time),
      " ", "Normalize=", FormatBool(normalize_)>>

\* The call of a method of Commands with its arguments in declaration
\* order, each as <<>> or <<v>>.
Serialized(method, args) ==
    CASE method = "open_project" -> open_project(args[1][1], args[2][1])
      [] method = "save_project" -> save_project(args[1][1], args[2][1], args[3][1])
      [] method = "import_audio" -> import_audio(args[1][1])
      [] method = "export_audio" -> export_audio(args[1][1], args[2][1])
      [] method = "select_frequencies" -> select_frequencies(args[1], args[2])
      [] method = "set_track_status" -> set_track_status(args[1], args[2], args[3])
      [] method = "set_track_audio" ->
            set_track_audio(args[1], args[2], args[3], args[4])
      [] method = "set_clip" -> set_clip(args[1], args[2], args[3])
      [] method = "set_envelope" -> set_envelope(args[1], args[2], args[3])
      [] method = "set_label" ->
            set_label(args[1][1], args[2], args[3], args[4], args[5])
      [] method = "set_project" ->
            set_project(args[1], args[2], args[3], args[4], args[5], args[6])
      [] method = "set_preference" ->
            set_preference(args[1][1], args[2][1], args[3][1])
      [] method = "normalize" ->
            normalize(args[1][1], args[2][1], args[3][1], args[4][1])
      [] method = "compressor" ->
            compressor(args[1][1], args[2][1], args[3][1], args[4][1], args[5][1],
                       args[6][1])

\* __exit__: disconnect().
Disconnects == \E e \in CloseEnvs : SetConn(DisconnectResult(Conn, e).conn)

(***************************************************************************)
(* The host application: it answers the oldest unanswered command with     *)
(* one or more text lines followed by a blank line, at its own pace, and   *)
(* may write blank lines between two replies (never inside one).           *)
(***************************************************************************)
HostNoise ==
    /\ hlines = 0
    /\ noise < MaxNoise
    /\ noise' = noise + 1
    /\ Len(from_pipe) < MaxInbox
    /\ \E l \in {BlankLine, SpaceLine} : from_pipe' = Append(from_pipe, l)
    /\ UNCHANGED <<is_connected, connRest, to_pipe, hlines, rpc, response, elapsed, read_log, ncalls>>
    /\ UNCHANGED <<wfVars, backstage>>

HostContent ==
    /\ to_pipe # <<>>
    /\ hlines < MaxReplyLines
    /\ Len(from_pipe) < MaxInbox
    /\ from_pipe' = Append(from_pipe, DataLine(Head(to_pipe)))
    /\ hlines' = hlines + 1
    /\ UNCHANGED <<is_connected, connRest, to_pipe, noise, rpc, response, elapsed, read_log, ncalls>>
    /\ UNCHANGED <<wfVars, backstage>>

HostEnd ==
    /\ to_pipe # <<>>
    /\ hlines > 0
    /\ Len(from_pipe) < MaxInbox
    /\ from_pipe' = Append(from_pipe, BlankLine)
    /\ to_pipe' = Tail(to_pipe)
    /\ hlines' = 0
    /\ UNCHANGED <<is_connected, connRest, noise, rpc, response, elapsed, read_log, ncalls>>
    /\ UNCHANGED <<wfVars, backstage>>

(***************************************************************************)
(* AudacityPipe.do_command: connect if needed, send_command, then enter    *)
(* receive_response (response = "", start_time = now).                     *)
(***************************************************************************)
DoCommand ==
    /\ rpc \in {"idle", "returned", "timeout"}
    /\ ncalls < MaxCmds
    /\ \E e \in ConnectEnvs :
        /\ EndpointsFine(e)
        /\ SetConn(ConnectResult(Conn, e).conn)
    /\ ncalls' = ncalls + 1
    /\ to_pipe' = Append(to_pipe, ncalls + 1)
    /\ response' = <<>>
    /\ elapsed' = 0
    /\ read_log' = <<>>
    /\ rpc' = "reading"
    /\ UNCHANGED <<from_pipe, hlines, noise>>
    /\ UNCHANGED <<wfVars, backstage>>

\* One iteration of the read loop in which readline() returns nothing:
\* raise on timeout, else sleep one interval and retry.
PollEmpty ==
    /\ rpc = "reading"
    /\ from_pipe = <<>>
    /\ IF TimedOut(elapsed)
       THEN rpc' = "timeout" /\ UNCHANGED elapsed
       ELSE rpc' = rpc /\ elapsed' = elapsed + 1
    /\ UNCHANGED <<is_connected, connRest, to_pipe, from_pipe, hlines, noise, response, read_log, ncalls>>
    /\ UNCHANGED <<wfVars, backstage>>

\* One iteration of the read loop in which readline() returns a line, after
\* waiting d intervals for it.
ReadLine ==
    /\ rpc = "reading"
    /\ from_pipe # <<>>
    /\ \E d \in 0..1 :
        /\ elapsed + d <= MaxElapsed
        /\ elapsed' = elapsed + d
    /\ LET line == Head(from_pipe) IN
        /\ from_pipe' = Tail(from_pipe)
        /\ read_log' = Append(read_log, line)
        /\ IF EndsResponse(line, response)
           THEN rpc' = "returned" /\ UNCHANGED response
           ELSE IF IsBlank(line)
                THEN UNCHANGED <<rpc, response>>
                ELSE rpc' = rpc /\ response' = Append(response, line)
    /\ UNCHANGED <<is_connected, connRest, to_pipe, hlines, noise, ncalls>>
    /\ UNCHANGED <<wfVars, backstage>>

\* AudacityPipe.__init__: not connected, nothing written, nothing read.
PipeIdle ==
    /\ is_connected = FALSE
    /\ to_handle = 0
    /\ from_handle = 0
    /\ opened = 0
    /\ to_pipe = <<>>
    /\ from_pipe = <<>>
    /\ hlines = 0
    /\ noise = 0
    /\ rpc = "idle"
    /\ response = <<>>
    /\ elapsed = 0
    /\ read_log = <<>>
    /\ ncalls = 0

\* The workflow variables, where no workflow runs.
WorkflowIdle ==
    /\ workflow = "none" /\ pc = "exit" /\ loop_i = 0 /\ step = 0
    /\ num_tracks = 0 /\ track_mute_status = <<>> /\ clips_to_export = <<>>
    /\ temp_track_idx = 0 /\ exported_count = 0 /\ exit_status = 0
    /\ outcome = "running" /\ host_mute = <<>> /\ host_sel = {} /\ host_clips = <<>>
    /\ host_time = <<0, 0>> /\ host_audio = <<>> /\ host_clipboard = 0
    /\ host_mute0 = <<>> /\ sent = <<>> /\ verbs = {} /\ queries = 0 /\ exports = <<>>
    /\ ran = {} /\ skipped = {} /\ failed = {} /\ failed_pc = "none"
    /\ report = <<0, 0>>

\* No call was made yet.
CallerIdle ==
    /\ calls = 0
    /\ last_call = [op |-> "none", raised |-> FALSE, fine |-> TRUE,
                    before |-> [is_connected |-> FALSE, to_handle |-> 0,
                                from_handle |-> 0, opened |-> 0],
                    command |-> <<>>, events |-> <<>>, written |-> <<>>,
                    after_failure |-> FALSE]

\* The callers that share the pipe.
Callers == {1, 2}

\* No caller is inside do_command.
SharedIdle == threads = [t \in Callers |-> [pc |-> "idle", cmd |-> 0, response |-> <<>>]]

\* No text function is being called.
TextIdle == text_in = [fn |-> "none"] /\ text_out = <<>> /\ text_pc = "idle"

\* No file name is being looked for.
NamesIdle ==
    /\ existing = {} /\ written = {} /\ counter = 1 /\ output_path = 0 /\ npc = "idle"
    /\ base_output_path = 0 /\ clip_exports = <<>>

InitPipe == PipeIdle /\ WorkflowIdle /\ CallerIdle /\ SharedIdle /\ TextIdle /\ NamesIdle

NextPipe ==
    \/ DoCommand
    \/ PollEmpty
    \/ ReadLine
    \/ HostNoise
    \/ HostContent
    \/ HostEnd

SpecPipe == InitPipe /\ [][NextPipe]_vars

(***************************************************************************)
(* Commands (commands.py).  A command is its verb and up to two numeric    *)
(* parameters: SelectTracks Track=a TrackCount=b (Mode=Set),               *)
(* SetTrackAudio Mute=a, SelectTime Start=a End=b, Export2 Filename=a      *)
(* NumChannels=b, GetInfo Type=a (1 = Tracks, 2 = Clips).                  *)
(***************************************************************************)
Cmd(verb, a, b) == [verb |-> verb, a |-> a, b |-> b]

\* Commands.get_info("Tracks"), Commands.get_info("Clips")
GetInfoTracks == Cmd("GetInfo", 1, 0)

GetInfoClips == Cmd("GetInfo", 2, 0)

\* Commands.select_tracks(track=t, track_count=1, mode="Set")
SelectTracks(t) == Cmd("SelectTracks", t, 1)

\* Commands.set_track_audio(mute=m): Mute=1 if m else 0
SetTrackAudio(m) == Cmd("SetTrackAudio", IF m THEN 1 ELSE 0, 0)

SelectAll == Cmd("SelectAll", 0, 0)

SelectNone == Cmd("SelectNone", 0, 0)

SelectTime(start, end) == Cmd("SelectTime", start, end)

\* Commands.export_audio(path, num_channels=2); the path is named by its number
Export2(file) == Cmd("Export2", file, 2)

NewStereoTrack == Cmd("NewStereoTrack", 0, 0)

CopyCmd == Cmd("Copy", 0, 0)

PasteCmd == Cmd("Paste", 0, 0)

DeleteCmd == Cmd("Delete", 0, 0)

SelectionVerbs == {"SelectAll", "SelectNone", "SelectTracks", "SelectTime"}

(***************************************************************************)
(* The host application's effect of one command on its tracks: the mute    *)
(* flags and the track selection.  Tracks are numbered from 0; host_mute   *)
(* is a sequence, so track t is element t + 1.                             *)
(***************************************************************************)
HostTracks(mute) == 0..(Len(mute) - 1)

HostMuteAfter(cmd, mute, sel) ==
    CASE cmd.verb = "SetTrackAudio" ->
            [t \in 1..Len(mute) |-> IF (t - 1) \in sel THEN cmd.a = 1 ELSE mute[t]]
      [] cmd.verb = "NewStereoTrack" -> Append(mute, FALSE)
      [] OTHER -> mute

HostSelAfter(cmd, mute, sel) ==
    CASE cmd.verb = "SelectTracks" -> (cmd.a..(cmd.a + cmd.b - 1)) \cap HostTracks(mute)
      [] cmd.verb = "SelectAll" -> HostTracks(mute)
      [] cmd.verb = "SelectNone" -> {}
      [] cmd.verb = "NewStereoTrack" -> {Len(mute)}
      [] OTHER -> sel

Min(a, b) == IF a <= b THEN a ELSE b

Max(a, b) == IF a >= b THEN a ELSE b

\* The length of the part of a track's audio, which runs from 0 to len, that
\* lies inside the time range from a to b.
Overlap(len, a, b) == Max(0, Min(b, len) - Max(a, 0))

\* The end of the longest track, 0 where there is no track.
ProjectEnd(audio) ==
    IF audio = <<>> THEN 0
    ELSE audio[CHOOSE t \in 1..Len(audio) : \A u \in 1..Len(audio) : audio[u] <= audio[t]]

\* The selected time range: SelectTime sets it, SelectAll selects the whole
\* project, SelectNone and Delete leave a cursor at its start, Paste leaves
\* the pasted audio selected.
HostTimeAfter(cmd, audio, time, clipboard) ==
    CASE cmd.verb = "SelectTime" -> <<cmd.a, cmd.b>>
      [] cmd.verb = "SelectAll" -> <<0, ProjectEnd(audio)>>
      [] cmd.verb \in {"SelectNone", "Delete"} -> <<time[1], time[1]>>
      [] cmd.verb = "Paste" -> <<time[1], time[1] + clipboard>>
      [] OTHER -> time

\* The audio of the tracks: Delete removes the selected time range from the
\* selected tracks, Paste puts the clipboard in its place, a new track is empty.
HostAudioAfter(cmd, audio, sel, time, clipboard) ==
    CASE cmd.verb = "Delete" ->
            [t \in 1..Len(audio) |->
                IF (t - 1) \in sel
                THEN audio[t] - Overlap(audio[t], time[1], time[2])
                ELSE audio[t]]
      [] cmd.verb = "Paste" ->
            [t \in 1..Len(audio) |->
                IF (t - 1) \in sel /\ clipboard > 0
                THEN Max(audio[t], time[1]) - Overlap(audio[t], time[1], time[2]) + clipboard
                ELSE audio[t]]
      [] cmd.verb = "NewStereoTrack" -> Append(audio, 0)
      [] OTHER -> audio

\* The clipboard: Copy takes the selected time range of the first selected
\* track; nothing is copied where no track is selected.
HostClipboardAfter(cmd, audio, sel, time, clipboard) ==
    IF cmd.verb = "Copy" /\ sel # {}
    THEN LET t == CHOOSE x \in sel : \A y \in sel : x <= y
         IN Overlap(audio[t + 1], time[1], time[2])
    ELSE clipboard

\* The last selection command of a log of commands, "none" if there is none.
RECURSIVE LastSelection(_)
LastSelection(log) ==
    IF log = <<>> THEN "none"
    ELSE IF log[Len(log)].verb \in SelectionVerbs THEN log[Len(log)].verb
    ELSE LastSelection(SubSeq(log, 1, Len(log) - 1))

(***************************************************************************)
(* One do_command of a workflow.  The command is written; it is answered   *)
(* (ok) or do_command raises AudacityError (a timeout, a broken pipe), in  *)
(* which case the host may or may not have carried the command out.        *)
(* Ok and Fail say how the workflow goes on.                               *)
(***************************************************************************)
Send(cmd, applied) ==
    /\ sent' = Append(IF step = 1 THEN <<>> ELSE sent, cmd)
    /\ verbs' = verbs \cup {cmd.verb}
    /\ queries' = IF cmd.verb = "GetInfo" THEN queries + 1 ELSE queries
    /\ host_mute' = IF applied THEN HostMuteAfter(cmd, host_mute, host_sel) ELSE host_mute
    /\ host_sel' = IF applied THEN HostSelAfter(cmd, host_mute, host_sel) ELSE host_sel
    /\ host_time' = IF applied
                    THEN HostTimeAfter(cmd, host_audio, host_time, host_clipboard)
                    ELSE host_time
    /\ host_audio' = IF applied
                     THEN HostAudioAfter(cmd, host_audio, host_sel, host_time, host_clipboard)
                     ELSE host_audio
    /\ host_clipboard' = IF applied
                         THEN HostClipboardAfter(cmd, host_audio, host_sel, host_time,
                                                 host_clipboard)
                         ELSE host_clipboard

CmdStep(cmd, Ok, Fail) ==
    \E ok \in BOOLEAN, applied \in BOOLEAN :
        /\ ok => applied
        /\ Send(cmd, applied)
        /\ IF ok THEN Ok ELSE Fail

\* sys.exit(1) from one of the handlers at the end of the workflow; the with
\* statement's __exit__ has disconnected before.
Fatal(kind) ==
    /\ pc' = "exit"
    /\ exit_status' = 1
    /\ outcome' = kind
    /\ Disconnects
    /\ failed_pc' = pc

\* A return from inside the with statement.
Return(kind) ==
    /\ pc' = "exit"
    /\ outcome' = kind
    /\ Disconnects
    /\ UNCHANGED <<exit_status, failed_pc>>

\* The workflow goes on at position p.
Goto(p) ==
    /\ pc' = p
    /\ UNCHANGED <<exit_status, outcome, is_connected, connRest, failed_pc>>

(***************************************************************************)
(* Both workflows: with AudacityPipe() as audacity (connect), and          *)
(* quick_command: with self.                                               *)
(***************************************************************************)
\* Where the body of the with block begins.
FirstPosition(w) == IF w = "quick" THEN "quick" ELSE "q_tracks"

W_Connect ==
    /\ pc = "start"
    /\ \E e \in ConnectEnvs :
        LET r == ConnectResult(Conn, e) IN
        /\ SetConn(r.conn)
        /\ IF r.raised
           THEN /\ pc' = "exit"
                /\ exit_status' = IF workflow = "quick" THEN 0 ELSE 1
                /\ outcome' = IF workflow = "quick" THEN "raised" ELSE "fatal_audacity"
                /\ failed_pc' = pc
           ELSE /\ pc' = FirstPosition(workflow)
                /\ UNCHANGED <<exit_status, outcome, failed_pc>>
    /\ UNCHANGED <<inputs, report, loop_i, step, captured, tally, hostVars, logVars, pipeRest, backstage>>

\* A user interrupt (KeyboardInterrupt) while the workflow is inside its with
\* block: no handler of the workflow function catches it; __exit__
\* disconnects and main's handler prints the cancellation and calls
\* sys.exit(0).  Raised inside quick_command it reaches the caller.
W_Interrupt ==
    /\ pc \notin {"start", "exit"}
    /\ pc' = "exit"
    /\ outcome' = "cancelled"
    /\ failed_pc' = pc
    /\ Disconnects
    /\ UNCHANGED <<inputs, report, exit_status, loop_i, step, captured, tally, hostVars, logVars,
                   pipeRest, backstage>>

\* The commands quick_command is called with.
QuickCommands == {GetInfoTracks, SelectAll}

\* pipe.py 224-237, quick_command(): the command inside `with self`; an
\* AudacityError of do_command is raised to the caller after __exit__.
Q_Command ==
    /\ workflow = "quick"
    /\ pc = "quick"
    /\ \E cmd \in QuickCommands : CmdStep(cmd, Return("done"), Return("raised"))
    /\ UNCHANGED <<inputs, report, loop_i, step, captured, tally, pipeRest, backstage>>

(***************************************************************************)
(* export_tracks_individually                                              *)
(***************************************************************************)
\* export_tracks_individually 134: f"{base_filename}_{i}.{file_extension}";
\* base and extension are fixed, the file is named by its number.
TrackFileName(n) == n

\* The per-track commands without the pass that mutes all the tracks first.
TrackSequenceSoloOnly(n, m) ==
    <<SelectTracks(n - 1), SetTrackAudio(FALSE), SelectAll, Export2(TrackFileName(n))>>

\* The commands of one iteration of the per-track loop (lines 140-153), for
\* the 1-based track number n of m tracks.
TrackSequence(n, m) ==
    [x \in 1..(2 * m) |->
        IF x % 2 = 1 THEN SelectTracks((x - 1) \div 2) ELSE SetTrackAudio(TRUE)]
    \o <<SelectTracks(n - 1), SetTrackAudio(FALSE), SelectAll, Export2(TrackFileName(n))>>

\* A restore pass that unmutes without selecting.
RestoreSequenceNoSelect(m) == [x \in 1..m |-> SetTrackAudio(FALSE)]

\* The commands of the restore pass (lines 159-161).
RestoreSequence(m) ==
    [x \in 1..(2 * m) |->
        IF x % 2 = 1 THEN SelectTracks((x - 1) \div 2) ELSE SetTrackAudio(FALSE)]

\* The empty-project test left out.
NoTracksNever(n) == FALSE

\* export_tracks_individually 121: num_tracks == 0

NoTracks(n) == n = 0

\* What is recorded when an Export2 is sent: the host's state at that moment.
ExportRecord(cmd, item) ==
    [item |-> item, file |-> cmd.a, mute |-> host_mute, sel |-> host_sel,
     last_selection |-> LastSelection(sent)]

\* Lines 104-126: the tracks query, its parsing and the empty-project return.
T_QueryTracks ==
    /\ workflow = "tracks"
    /\ pc = "q_tracks"
    /\ CmdStep(GetInfoTracks,
          \E parses \in BOOLEAN :
             IF ~parses
             THEN Return("parse_error") /\ UNCHANGED <<loop_i, step, captured>>
             ELSE /\ num_tracks' = Len(host_mute)
                  /\ UNCHANGED <<track_mute_status, clips_to_export, temp_track_idx>>
                  /\ IF NoTracks(Len(host_mute))
                     THEN Return("no_tracks") /\ UNCHANGED <<loop_i, step>>
                     ELSE IF Len(host_mute) >= 1
                     THEN Goto("t_loop") /\ loop_i' = 1 /\ step' = 1
                     ELSE Return("done") /\ UNCHANGED <<loop_i, step>>,
          Fatal("fatal_audacity") /\ UNCHANGED <<loop_i, step, captured>>)
    /\ UNCHANGED <<inputs, report, tally, pipeRest, backstage>>

\* One command of the per-track loop (lines 129-155).
T_TrackCmd ==
    /\ workflow = "tracks"
    /\ pc = "t_loop"
    /\ LET seq == TrackSequence(loop_i, num_tracks)
           cmd == seq[step]
       IN
        /\ exports' = IF cmd.verb = "Export2"
                      THEN Append(exports, ExportRecord(cmd, loop_i - 1))
                      ELSE exports
        /\ CmdStep(cmd,
              IF step < Len(seq)
              THEN Goto("t_loop") /\ step' = step + 1 /\ UNCHANGED loop_i
              ELSE IF loop_i < num_tracks
                   THEN Goto("t_loop") /\ step' = 1 /\ loop_i' = loop_i + 1
                   ELSE Goto("t_restore") /\ step' = 1 /\ UNCHANGED loop_i,
              Fatal("fatal_audacity") /\ UNCHANGED <<loop_i, step>>)
    /\ UNCHANGED <<inputs, report, captured, exported_count, ran, skipped, failed, pipeRest, backstage>>

\* One command of the restore pass (lines 157-166); after the last one the
\* function returns.
T_RestoreCmd ==
    /\ workflow = "tracks"
    /\ pc = "t_restore"
    /\ LET seq == RestoreSequence(num_tracks) IN
        CmdStep(seq[step],
            IF step < Len(seq)
            THEN Goto("t_restore") /\ step' = step + 1
            ELSE Return("done") /\ UNCHANGED step,
            Fatal("fatal_audacity") /\ UNCHANGED step)
    /\ UNCHANGED <<inputs, report, loop_i, captured, tally, pipeRest, backstage>>

(***************************************************************************)
(* export_clips_individually                                               *)
(***************************************************************************)
\* clip.get('track', default)
GetTrack(clip, default) == IF clip.has_track THEN clip.track ELSE default

\* track_mute_status.get(track_idx, False), the dict built at lines 134-136
IsMuted(status, track_idx) ==
    IF track_idx \in 0..(Len(status) - 1) THEN status[track_idx + 1] ELSE FALSE

\* A mute filter that keeps every clip.
KeptWhateverTheFlag(clip, status) == TRUE

\* Lines 161-164: the mute filter keeps a clip whose track is not muted.
KeptByMuteFilter(clip, status) == ~IsMuted(status, GetTrack(clip, 0))

\* Lines 159-167
FilterUnmuted(clips, status) ==
    SelectSeq(clips, LAMBDA c : KeptByMuteFilter(c, status))

\* The test of line 204 without its start_time < 0 part.
InvalidClipNoStartTest(clip) ==
    \/ GetTrack(clip, -1) = -1
    \/ clip.end <= clip.start

\* Line 204: the test that skips a clip inside the loop.
InvalidClip(clip) ==
    \/ GetTrack(clip, -1) = -1
    \/ clip.start < 0
    \/ clip.end <= clip.start

\* The output path of a clip, named by the clip's position in the clips query.
ClipFile(clip) == clip.id

\* Lines 188-196 with the loop ending one track early.
MuteSetupSequenceShort(m, temp) ==
    [x \in 1..(3 * (m - 1)) |->
        CASE x % 3 = 1 -> SelectNone
          [] x % 3 = 2 -> SelectTracks((x - 1) \div 3)
          [] OTHER -> SetTrackAudio(((x - 1) \div 3) # temp)]

\* Lines 188-196: the commands of the mute pass over range(num_tracks).
MuteSetupSequence(m, temp) ==
    [x \in 1..(3 * m) |->
        CASE x % 3 = 1 -> SelectNone
          [] x % 3 = 2 -> SelectTracks((x - 1) \div 3)
          [] OTHER -> SetTrackAudio(((x - 1) \div 3) # temp)]

\* Line 250: the end of the time range deleted from the scratch track, in seconds.
WideRangeEnd == 100

\* The commands of one clip without the selection of the scratch track before
\* the wide range is deleted.
ClipSequenceNoReselect(clip, temp) ==
    <<SelectNone, SelectTracks(GetTrack(clip, -1)), SelectTime(clip.start, clip.end),
      CopyCmd,
      SelectTime(0, WideRangeEnd), DeleteCmd,
      SelectNone, SelectTracks(temp), PasteCmd,
      SelectNone, SelectTracks(temp), SelectTime(0, clip.end - clip.start),
      Export2(ClipFile(clip))>>

\* The commands of one clip followed by the removal of the scratch track.
ClipSequenceRemoving(clip, temp) ==
    <<SelectNone, SelectTracks(GetTrack(clip, -1)), SelectTime(clip.start, clip.end),
      CopyCmd,
      SelectNone, SelectTracks(temp), SelectTime(0, WideRangeEnd), DeleteCmd,
      SelectNone, SelectTracks(temp), PasteCmd,
      SelectNone, SelectTracks(temp), SelectTime(0, clip.end - clip.start),
      Export2(ClipFile(clip)), Cmd("RemoveTracks", 0, 0)>>

\* Lines 235-263: the commands of one clip.
ClipSequence(clip, temp) ==
    <<SelectNone, SelectTracks(GetTrack(clip, -1)), SelectTime(clip.start, clip.end),
      CopyCmd,
      SelectNone, SelectTracks(temp), SelectTime(0, WideRangeEnd), DeleteCmd,
      SelectNone, SelectTracks(temp), PasteCmd,
      SelectNone, SelectTracks(temp), SelectTime(0, clip.end - clip.start),
      Export2(ClipFile(clip))>>

ClipIds(clips) == {clips[x].id : x \in 1..Len(clips)}

\* Lines 128-138: the first tracks query; a response that does not parse
\* raises JSONDecodeError, handled at line 283 by sys.exit(1).
C_QueryTracks ==
    /\ workflow = "clips"
    /\ pc = "q_tracks"
    /\ CmdStep(GetInfoTracks,
          \E parses \in BOOLEAN :
             IF ~parses
             THEN Fatal("fatal_json") /\ UNCHANGED captured
             ELSE /\ Goto("c_q_clips")
                  /\ track_mute_status' = host_mute
                  /\ UNCHANGED <<num_tracks, clips_to_export, temp_track_idx>>,
          Fatal("fatal_audacity") /\ UNCHANGED captured)
    /\ UNCHANGED <<inputs, report, loop_i, step, tally, pipeRest, backstage>>

\* Lines 140-174: the clips query, its parsing, the mute filter and the two
\* nothing-to-export returns.
C_QueryClips ==
    /\ workflow = "clips"
    /\ pc = "c_q_clips"
    /\ CmdStep(GetInfoClips,
          \E parses \in BOOLEAN :
             IF ~parses
             THEN Return("parse_error") /\ UNCHANGED <<captured, skipped>>
             ELSE IF host_clips = <<>>
             THEN Return("no_clips") /\ UNCHANGED <<captured, skipped>>
             ELSE LET kept == FilterUnmuted(host_clips, track_mute_status) IN
                  /\ clips_to_export' = kept
                  /\ skipped' = skipped \cup (ClipIds(host_clips) \ ClipIds(kept))
                  /\ UNCHANGED <<num_tracks, track_mute_status, temp_track_idx>>
                  /\ IF kept = <<>>
                     THEN Return("no_unmuted_clips")
                     ELSE Goto("c_new_track"),
          Fatal("fatal_audacity") /\ UNCHANGED <<captured, skipped>>)
    /\ UNCHANGED <<inputs, report, loop_i, step, exported_count, exports, ran, failed, pipeRest, backstage>>

\* Line 178: the scratch track.
C_NewTrack ==
    /\ workflow = "clips"
    /\ pc = "c_new_track"
    /\ CmdStep(NewStereoTrack, Goto("c_requery"), Fatal("fatal_audacity"))
    /\ UNCHANGED <<inputs, report, loop_i, step, captured, tally, pipeRest, backstage>>

ScratchIndexIsCount(tracks_data_updated) == Len(tracks_data_updated)

\* Line 183: temp_track_idx = len(tracks_data_updated) - 1
ScratchIndex(tracks_data_updated) == Len(tracks_data_updated) - 1

\* Lines 181-189: the second tracks query gives the scratch track's index.
C_Requery ==
    /\ workflow = "clips"
    /\ pc = "c_requery"
    /\ CmdStep(GetInfoTracks,
          \E parses \in BOOLEAN :
             IF ~parses
             THEN Fatal("fatal_json") /\ UNCHANGED captured
             ELSE /\ Goto("c_mute")
                  /\ temp_track_idx' = ScratchIndex(host_mute)
                  /\ num_tracks' = Len(host_mute)
                  /\ UNCHANGED <<track_mute_status, clips_to_export>>,
          Fatal("fatal_audacity") /\ UNCHANGED captured)
    /\ UNCHANGED <<inputs, report, loop_i, step, tally, pipeRest, backstage>>

\* One command of the mute pass (lines 190-196); after the last one the loop
\* over the clips begins (exported_count = 0).
C_MuteCmd ==
    /\ workflow = "clips"
    /\ pc = "c_mute"
    /\ LET seq == MuteSetupSequence(num_tracks, temp_track_idx) IN
        CmdStep(seq[step],
            IF step < Len(seq)
            THEN Goto("c_mute") /\ step' = step + 1 /\ UNCHANGED loop_i
            ELSE Goto("c_clip") /\ step' = 1 /\ loop_i' = 1,
            Fatal("fatal_audacity") /\ UNCHANGED <<loop_i, step>>)
    /\ UNCHANGED <<inputs, report, captured, tally, pipeRest, backstage>>

\* Lines 199-206: a clip with invalid data is skipped, no command is sent.
C_SkipClip ==
    /\ workflow = "clips"
    /\ pc = "c_clip"
    /\ loop_i <= Len(clips_to_export)
    /\ InvalidClip(clips_to_export[loop_i])
    /\ skipped' = skipped \cup {clips_to_export[loop_i].id}
    /\ loop_i' = loop_i + 1
    /\ Goto("c_clip")
    /\ UNCHANGED <<inputs, report, step, captured, exported_count, exports, ran, failed,
                   hostVars, logVars, pipeRest, backstage>>

\* Lines 208-233: the output path of a valid clip is computed.
C_BeginClip ==
    /\ workflow = "clips"
    /\ pc = "c_clip"
    /\ loop_i <= Len(clips_to_export)
    /\ ~InvalidClip(clips_to_export[loop_i])
    /\ step' = 1
    /\ Goto("c_cmd")
    /\ UNCHANGED <<inputs, report, loop_i, captured, tally, hostVars, logVars, pipeRest, backstage>>

\* A failing command of a clip taken as fatal to the run.
ClipFailedFatal(clip) ==
    /\ Fatal("fatal_audacity")
    /\ failed' = failed \cup {clip.id}
    /\ UNCHANGED <<loop_i, step, exported_count>>

\* Lines 268-270: the handler of a clip's failing command: the clip is
\* reported as failed and the loop continues with the next clip.
ClipFailed(clip) ==
    /\ Goto("c_clip") /\ step' = 1 /\ loop_i' = loop_i + 1
    /\ failed' = failed \cup {clip.id}
    /\ UNCHANGED exported_count

\* One command of a clip's sequence (lines 235-270).  A failure is caught by
\* the handler at line 268 and the loop goes on with the next clip.
C_ClipCmd ==
    /\ workflow = "clips"
    /\ pc = "c_cmd"
    /\ LET clip == clips_to_export[loop_i]
           seq == ClipSequence(clip, temp_track_idx)
           cmd == seq[step]
       IN
        /\ ran' = ran \cup {clip.id}
        /\ exports' = IF cmd.verb = "Export2"
                      THEN Append(exports, ExportRecord(cmd, clip.id))
                      ELSE exports
        /\ CmdStep(cmd,
              IF step < Len(seq)
              THEN /\ Goto("c_cmd") /\ step' = step + 1
                   /\ UNCHANGED <<loop_i, exported_count, failed>>
              ELSE /\ Goto("c_clip") /\ step' = 1 /\ loop_i' = loop_i + 1
                   /\ exported_count' = exported_count + 1
                   /\ UNCHANGED failed,
              ClipFailed(clip))
    /\ UNCHANGED <<inputs, report, captured, skipped, pipeRest, backstage>>

\* Line 273: the total of the report.
ReportedTotal(clips) == Len(clips)

\* Lines 272-274: the report after the loop; the function returns.
C_Finish ==
    /\ workflow = "clips"
    /\ pc = "c_clip"
    /\ loop_i > Len(clips_to_export)
    /\ Return("done")
    /\ report' = <<exported_count, ReportedTotal(clips_to_export)>>
    /\ UNCHANGED <<inputs, loop_i, step, captured, tally, hostVars, logVars, pipeRest, backstage>>

(***************************************************************************)
(* The projects the workflows are run on.                                  *)
(***************************************************************************)
\* Tracks of the project before the run.
MaxTracks == 2
\* Clips listed by the clips query.
MaxClips == 2

\* The clips a project of n tracks may list: a clip of valid timing on each
\* track, one whose track index is -1, one whose track index names no track
\* (n), one without a track reference, and on track 0 a clip with a negative
\* start, one that ends where it starts and one longer than the range
\* deleted from the scratch track.
ClipChoices(n) ==
    {[has_track |-> TRUE, track |-> t, start |-> 0, end |-> 1] : t \in (-1)..n}
    \cup {[has_track |-> FALSE, track |-> 0, start |-> 0, end |-> 1],
          [has_track |-> TRUE, track |-> 0, start |-> -1, end |-> 1],
          [has_track |-> TRUE, track |-> 0, start |-> 1, end |-> 1],
          [has_track |-> TRUE, track |-> 0, start |-> 0, end |-> WideRangeEnd + 1]}

\* The audio of a project's tracks: track t runs from 0 to the end of its
\* last clip.
TrackAudio(n, clips) ==
    [t \in 1..n |->
        ProjectEnd(<<0>> \o [x \in 1..Len(clips) |->
            IF clips[x].has_track /\ clips[x].track = t - 1 THEN clips[x].end ELSE 0])]

\* The clips query lists the clips track by track.
ClipLists(n) ==
    IF n = 0 THEN {<<>>}
    ELSE {c \in UNION {[1..m -> ClipChoices(n)] : m \in 0..MaxClips} :
            \A x \in 1..(Len(c) - 1) : c[x].track <= c[x + 1].track}

WithIds(clips) ==
    [x \in 1..Len(clips) |->
        [id |-> x, has_track |-> clips[x].has_track, track |-> clips[x].track,
         start |-> clips[x].start, end |-> clips[x].end]]

\* What the clips query of a run started now would list: the clips of the
\* project and, when the scratch track holds pasted audio, that audio as a
\* clip of the scratch track.
HostClipsAfterRun ==
    IF Len(host_audio) > Len(host_mute0) /\ host_audio[Len(host_audio)] > 0
    THEN Append(host_clips,
                [id |-> Len(host_clips) + 1, has_track |-> TRUE,
                 track |-> Len(host_audio) - 1, start |-> 0,
                 end |-> host_audio[Len(host_audio)]])
    ELSE host_clips

\* Lines 130-167 of a run started now: the mute flags of its tracks query
\* and the clips its mute filter keeps.  The run returns at line 172 when
\* there is none and goes on to NewStereoTrack (line 178) otherwise.
SecondRunKept == FilterUnmuted(HostClipsAfterRun, host_mute)

\* The state when a workflow function is entered.  A project without tracks
\* has no clips; the track workflow never asks for the clips.
InitExport ==
    /\ workflow \in {"tracks", "clips", "quick"}
    /\ \E n \in 0..MaxTracks :
        /\ host_mute \in [1..n -> BOOLEAN]
        /\ host_clips \in IF workflow = "clips"
                          THEN {WithIds(c) : c \in ClipLists(n)}
                          ELSE {<<>>}
    /\ host_mute0 = host_mute
    /\ host_sel = {}
    /\ host_time = <<0, 0>>
    /\ host_audio = TrackAudio(Len(host_mute), host_clips)
    /\ host_clipboard = 0
    /\ pc = "start" /\ loop_i = 0 /\ step = 1
    /\ num_tracks = 0 /\ track_mute_status = <<>> /\ clips_to_export = <<>>
    /\ temp_track_idx = 0 /\ exported_count = 0 /\ exit_status = 0
    /\ outcome = "running"
    /\ sent = <<>> /\ verbs = {} /\ queries = 0 /\ exports = <<>>
    /\ ran = {} /\ skipped = {} /\ failed = {} /\ failed_pc = "none"
    /\ report = <<0, 0>>
    /\ PipeIdle /\ CallerIdle /\ SharedIdle /\ TextIdle /\ NamesIdle

NextExport ==
    \/ W_Connect
    \/ W_Interrupt
    \/ Q_Command
    \/ T_QueryTracks
    \/ T_TrackCmd
    \/ T_RestoreCmd
    \/ C_QueryTracks
    \/ C_QueryClips
    \/ C_NewTrack
    \/ C_Requery
    \/ C_MuteCmd
    \/ C_SkipClip
    \/ C_BeginClip
    \/ C_ClipCmd
    \/ C_Finish

SpecExport == InitExport /\ [][NextExport]_vars

(***************************************************************************)
(* export_clips_individually 217-228: the search for a file name that does *)
(* not exist yet, and lines 199-270, the loop over the clips around it.    *)
(* A file of the output directory is a number: 0 is name.ext for one clip  *)
(* name, and Suffixed(p, c) is the file p with _c put before its           *)
(* extension, so that 1, 2, ... are name_1.ext, name_2.ext, ... and        *)
(* Suffixed(1, 1) is name_1_1.ext.  Another process may create files of    *)
(* the directory while the search goes on.                                 *)
(***************************************************************************)
\* A path that is never found.
PathNeverExists(path, files) == FALSE

\* os.path.exists(path)
PathExists(path, files) == path \in files

\* More than any counter of a run reaches.
Radix == MaxSuffix + MaxClips + 2

\* Lines 223-226: f"{safe_name}_{counter}.{file_extension}" for the clip
\* whose name.ext is the file path.
Suffixed(path, c) == path * Radix + c

\* The sanitized clip names of a run, each by its file: name.ext and
\* name_1.ext, the file of a clip called name_1.
ClipNames == {0, 1}

\* The candidate built from the counter and the one after it.
CandidatePathSkipping(c) == Suffixed(base_output_path, c + 1)

\* Lines 223-227: the candidate name_{counter}.ext.
CandidatePath(c) == Suffixed(base_output_path, c)

\* Lines 222-228: one iteration of the while loop: the path exists, the next
\* candidate is built and the counter incremented.
N_Probe ==
    /\ npc = "probing"
    /\ PathExists(output_path, existing)
    /\ output_path' = CandidatePath(counter)
    /\ counter' = counter + 1
    /\ UNCHANGED <<existing, written, base_output_path, clip_exports, npc>>
    /\ UNCHANGED <<pipeVars, wfVars, caller, textVars, sharedVars>>

\* Line 222: the path does not exist, the loop ends with it.
N_Choose ==
    /\ npc = "probing"
    /\ ~PathExists(output_path, existing)
    /\ npc' = "chosen"
    /\ UNCHANGED <<existing, written, counter, output_path, base_output_path, clip_exports>>
    /\ UNCHANGED <<pipeVars, wfVars, caller, textVars, sharedVars>>

\* Another process creates a file of the directory during the search.
N_WriterCreates ==
    /\ npc = "probing"
    /\ \E f \in (0..MaxSuffix) \ existing :
        /\ existing' = existing \cup {f}
        /\ written' = written \cup {f}
    /\ UNCHANGED <<counter, output_path, base_output_path, clip_exports, npc>>
    /\ UNCHANGED <<pipeVars, wfVars, caller, textVars, sharedVars>>

\* Lines 235-270: the commands of the clip up to Export2 to output_path.
\* One of them raises and the clip is reported as failed (lines 268-270), or
\* export_audio returns the host's reply, which line 263 stores and nothing
\* reads, and line 265 counts the clip.  The host that reports success has
\* written the file or is still to write it; the host that reports a failure
\* has written none.
N_Export ==
    /\ npc = "chosen"
    /\ npc' = "exported"
    /\ \E reply \in {"none", "ok", "failed"}, created \in BOOLEAN :
        /\ created => reply = "ok"
        /\ existing' = IF created THEN existing \cup {output_path} ELSE existing
        /\ clip_exports' = Append(clip_exports, [path |-> output_path, reply |-> reply,
                                       counted |-> reply # "none",
                                       created |-> created])
    /\ UNCHANGED <<written, counter, output_path, base_output_path>>
    /\ UNCHANGED <<pipeVars, wfVars, caller, textVars, sharedVars>>

\* Lines 199-221: the next clip of the list: its sanitized name gives
\* output_path and base_output_path, counter = 1.
N_NextClip ==
    /\ npc = "exported"
    /\ Len(clip_exports) < MaxClips
    /\ \E name \in ClipNames :
        /\ output_path' = name
        /\ base_output_path' = name
    /\ counter' = 1
    /\ npc' = "probing"
    /\ UNCHANGED <<existing, written, clip_exports>>
    /\ UNCHANGED <<pipeVars, wfVars, caller, textVars, sharedVars>>

\* Lines 217-221 for the first clip: output_path is its name.ext and
\* counter = 1; the directory holds any of the files name.ext, name_1.ext, ...
InitNames ==
    /\ existing \in SUBSET (0..MaxSuffix)
    /\ written = {}
    /\ counter = 1
    /\ base_output_path \in ClipNames
    /\ output_path = base_output_path
    /\ clip_exports = <<>>
    /\ npc = "probing"
    /\ PipeIdle /\ WorkflowIdle /\ CallerIdle /\ SharedIdle /\ TextIdle

NextNames ==
    \/ N_Probe
    \/ N_Choose
    \/ N_WriterCreates
    \/ N_Export
    \/ N_NextClip

SpecNames == InitNames /\ [][NextNames]_vars

(***************************************************************************)
(* A caller of AudacityPipe's connection methods: connect(), disconnect()  *)
(* and send_command() in any order, whatever the state of the two pipes.   *)
(***************************************************************************)
\* Whether a do_command() call made so far raised.
FailedSoFar == last_call.after_failure \/ (last_call.op = "do_command" /\ last_call.raised)

\* The record of a call that sends nothing.
PlainCall(op, raised, fine) ==
    [op |-> op, raised |-> raised, fine |-> fine, before |-> Conn,
     command |-> <<>>, events |-> <<>>, written |-> <<>>, after_failure |-> FailedSoFar]

\* connect()
P_Connect ==
    /\ calls < MaxCalls
    /\ calls' = calls + 1
    /\ \E e \in ConnectEnvs :
        LET r == ConnectResult(Conn, e) IN
        /\ SetConn(r.conn)
        /\ last_call' = PlainCall("connect", r.raised, EndpointsFine(e))
    /\ UNCHANGED <<pipeRest, wfVars, nameVars, textVars, sharedVars>>

\* disconnect(), close()
P_Disconnect ==
    /\ calls < MaxCalls
    /\ calls' = calls + 1
    /\ \E e \in CloseEnvs :
        LET r == DisconnectResult(Conn, e) IN
        /\ SetConn(r.conn)
        /\ last_call' = PlainCall("disconnect", r.raised,
                                  ~(e.to_close_raises \/ e.from_close_raises))
    /\ UNCHANGED <<pipeRest, wfVars, nameVars, textVars, sharedVars>>

\* send_command(): the command is written to the outbound pipe unless the
\* call raises.
P_SendCommand ==
    /\ calls < MaxCalls
    /\ calls' = calls + 1
    /\ \E write_fails \in BOOLEAN :
        LET raised == SendRaises(Conn, write_fails) IN
        /\ last_call' = PlainCall("send_command", raised, ~write_fails)
        /\ to_pipe' = IF raised THEN to_pipe ELSE Append(to_pipe, ncalls + 1)
        /\ ncalls' = IF raised THEN ncalls ELSE ncalls + 1
    /\ UNCHANGED <<is_connected, connRest, from_pipe, hlines, noise, rpc, response, elapsed,
                   read_log>>
    /\ UNCHANGED <<wfVars, nameVars, textVars, sharedVars>>

\* The commands the caller passes to do_command().
CommandTexts == {<<"H", "e", "l", "p", ":">>, <<"A", ":">>}

\* do_command(): the command reaches the outbound pipe when the write was
\* made and did not fail.
P_DoCommand ==
    /\ calls < MaxCalls
    /\ calls' = calls + 1
    /\ \E e \in ConnectEnvs, command \in CommandTexts, write_fails \in BOOLEAN,
          reading \in ReadEnds :
        LET r == DoCommandResult(Conn, e, command, write_fails, reading) IN
        /\ SetConn(r.conn)
        /\ last_call' = [op |-> "do_command", raised |-> r.raised,
                         fine |-> /\ Conn.is_connected \/ EndpointsFine(e)
                                  /\ ~write_fails
                                  /\ reading = "answered",
                         before |-> Conn, command |-> command, events |-> r.events,
                         written |-> r.written, after_failure |-> FailedSoFar]
        /\ to_pipe' = IF r.written = <<>> THEN to_pipe ELSE Append(to_pipe, ncalls + 1)
        /\ ncalls' = IF r.written = <<>> THEN ncalls ELSE ncalls + 1
    /\ UNCHANGED <<from_pipe, hlines, noise, rpc, response, elapsed, read_log>>
    /\ UNCHANGED <<wfVars, nameVars, textVars, sharedVars>>

InitConn == PipeIdle /\ WorkflowIdle /\ CallerIdle /\ SharedIdle /\ TextIdle /\ NamesIdle

NextConn ==
    \/ P_Connect
    \/ P_Disconnect
    \/ P_SendCommand
    \/ P_DoCommand

SpecConn == InitConn /\ [][NextConn]_vars

(***************************************************************************)
(* A caller of the text functions: one call per behaviour, the function    *)
(* and its arguments chosen at the start.                                  *)
(***************************************************************************)
\* Non-blank lines a reply can consist of: data, the status line, data that
\* holds the text of the status line (a clip of that name), indented data.
ReplyLines ==
    {<<"x">>, Sentinel, <<"\"">> \o Sentinel \o <<"\"">>, <<" ", "y">>}

\* The replies accumulated by receive_response(): one line or more.
ReceiveInputs ==
    {[fn |-> "receive_response", lines |-> l] :
        l \in UNION {[1..n -> ReplyLines] : n \in 1..MaxReplyLines}}

\* Length of the clip names tried (of their tail, for the long ones).
MaxNameLen == 3

NameChars == {"a", ".", " ", ":", "_"}

ShortNames == UNION {[1..n -> NameChars] : n \in 0..MaxNameLen}

\* Names longer than the limit: NameLimit - 1 letters and a tail.
LongNames == {[n \in 1..(NameLimit - 1) |-> "a"] \o t : t \in ShortNames \ {<<>>}}

SanitizeInputs ==
    {[fn |-> "sanitize_filename", name |-> n] : n \in ShortNames \cup LongNames}

\* 'My:Clip*', 'take_', 'flac', 'wav'
MyClip == <<"M", "y", ":", "C", "l", "i", "p", "*">>

TakePrefix == <<"t", "a", "k", "e", "_">>

Flac == <<"f", "l", "a", "c">>

Wav == <<"w", "a", "v">>

\* The clip name, prefix and extension a file name is made of.
FileNameInputs ==
    {[fn |-> "output_filename", name |-> n, prefix |-> q, file_extension |-> x] :
        n \in {MyClip, <<"a", "/", "b">>, <<".", "a", "?">>, <<":">>, <<".">>, <<>>},
        q \in {<<>>, TakePrefix}, x \in {Flac, Wav}}

\* Arguments of the methods of Commands: a flag, an optional flag, a
\* number, an optional number, a name, an optional name, a colour.
Flags == {<<TRUE>>, <<FALSE>>}

OptFlags == Flags \cup {None}

Number == {<<0>>}

OptNumbers == {None, <<0>>, <<2>>}

OptNumber == {None, <<1>>}

Name == {<<"L", "e", "a", "d">>}

OptNames == {None} \cup {<<n>> : n \in Name}

OptColors == {None, <<<<"Color1">>>>}

Call(method, args) == [fn |-> "command", method |-> method, args |-> args]

CommandInputs ==
    {Call("open_project", <<n, a>>) : n \in {<<n>> : n \in Name}, a \in Flags}
    \cup {Call("save_project", <<n, a, c>>) :
             n \in {<<n>> : n \in Name}, a \in Flags, c \in Flags}
    \cup {Call("select_frequencies", <<h, l>>) : h \in OptNumbers, l \in OptNumbers}
    \cup {Call("set_track_status", <<n, a, f>>) :
             n \in OptNames, a \in OptFlags, f \in OptFlags}
    \cup {Call("set_track_audio", <<m, a, g, q>>) :
             m \in OptFlags, a \in OptFlags, g \in OptNumbers, q \in OptNumber}
    \cup {Call("set_clip", <<a, c, b>>) :
             a \in OptNumbers, c \in OptColors, b \in OptNumbers}
    \cup {Call("set_envelope", <<t, v, d>>) :
             t \in OptNumbers, v \in OptNumber, d \in OptFlags}
    \cup {Call("set_label", <<l, t, a, b, c>>) :
             l \in Number, t \in OptNames, a \in OptNumber, b \in OptNumber,
             c \in OptFlags}
    \cup {Call("set_project", <<n, r, a, b, w, h>>) :
             n \in OptNames, r \in OptNumber, a \in OptNumber, b \in OptNumber,
             w \in OptNumber, h \in OptNumber}
    \cup {Call("set_preference", <<n, v, r>>) :
             n \in {<<n>> : n \in Name}, v \in {<<n>> : n \in Name}, r \in Flags}
    \cup {Call("normalize", <<l, a, b, c>>) :
             l \in Number, a \in Flags, b \in Flags, c \in Flags}
    \cup {Call("compressor", <<a, b, c, d, e, f>>) :
             a \in Number, b \in Number, c \in Number, d \in Number, e \in Number,
             f \in Flags}

\* File paths as the caller writes them: a Windows path with backslashes,
\* a mixed one, a path with forward slashes.
Paths ==
    {<<"C", ":", "\\", "d", "\\", "a">>, <<"d", "/", "e", "\\", "a">>,
     <<"/", "d", "/", "a">>}

\* The calls of the methods that take a file path.
PathInputs ==
    {Call("open_project", <<<<f>>, a>>) : f \in Paths, a \in Flags}
    \cup {Call("save_project", <<<<f>>, a, c>>) : f \in Paths, a \in Flags, c \in Flags}
    \cup {Call("import_audio", <<<<f>>>>) : f \in Paths}
    \cup {Call("export_audio", <<<<f>>, <<c>>>>) : f \in Paths, c \in {1, 2}}

TextInputs ==
    ReceiveInputs \cup SanitizeInputs \cup FileNameInputs \cup CommandInputs
        \cup PathInputs

\* receive_response() after its loop (pipe.py 193-197).
X_ReceiveResponse ==
    /\ text_pc = "ready"
    /\ text_in.fn = "receive_response"
    /\ text_out' = CleanResponse(Accumulated(text_in.lines))
    /\ text_pc' = "done"
    /\ UNCHANGED <<text_in, pipeVars, wfVars, caller, nameVars, sharedVars>>

\* sanitize_filename(name)
X_Sanitize ==
    /\ text_pc = "ready"
    /\ text_in.fn = "sanitize_filename"
    /\ text_out' = sanitize_filename(text_in.name)
    /\ text_pc' = "done"
    /\ UNCHANGED <<text_in, pipeVars, wfVars, caller, nameVars, sharedVars>>

\* sanitize_filename() called on a name it returned.
X_SanitizeAgain ==
    /\ text_pc = "done"
    /\ text_in.fn = "sanitize_filename"
    /\ text_in' = [text_in EXCEPT !.name = text_out]
    /\ text_out' = sanitize_filename(text_out)
    /\ text_pc' = "again"
    /\ UNCHANGED <<pipeVars, wfVars, caller, nameVars, sharedVars>>

\* Lines 209-215: the clip's name is sanitized and the file name made.
X_OutputFilename ==
    /\ text_pc = "ready"
    /\ text_in.fn = "output_filename"
    /\ text_out' = OutputFilename(text_in.prefix, sanitize_filename(text_in.name),
                                  text_in.file_extension)
    /\ text_pc' = "done"
    /\ UNCHANGED <<text_in, pipeVars, wfVars, caller, nameVars, sharedVars>>

\* A method of Commands builds its command (and passes it to do_command).
X_Command ==
    /\ text_pc = "ready"
    /\ text_in.fn = "command"
    /\ text_out' = Serialized(text_in.method, text_in.args)
    /\ text_pc' = "done"
    /\ UNCHANGED <<text_in, pipeVars, wfVars, caller, nameVars, sharedVars>>

InitText ==
    /\ text_in \in TextInputs
    /\ text_out = <<>>
    /\ text_pc = "ready"
    /\ PipeIdle /\ WorkflowIdle /\ CallerIdle /\ SharedIdle /\ NamesIdle

NextText ==
    \/ X_ReceiveResponse
    \/ X_Sanitize
    \/ X_SanitizeAgain
    \/ X_OutputFilename
    \/ X_Command

SpecText == InitText /\ [][NextText]_vars

(***************************************************************************)
(* Two callers (threads) that call do_command on the same AudacityPipe.    *)
(* The class holds no lock: a step of one caller can come between any two  *)
(* steps of the other.  The host is the one of SpecPipe.                   *)
(***************************************************************************)
\* do_command up to the loop of receive_response: connect if needed, write
\* the command, response = "".
S_Send(t) ==
    /\ threads[t].pc # "reading"
    /\ ncalls < MaxCmds
    /\ \E e \in ConnectEnvs :
        /\ EndpointsFine(e)
        /\ SetConn(ConnectResult(Conn, e).conn)
    /\ ncalls' = ncalls + 1
    /\ to_pipe' = Append(to_pipe, ncalls + 1)
    /\ threads' = [threads EXCEPT ![t] = [pc |-> "reading", cmd |-> ncalls + 1,
                                          response |-> <<>>]]
    /\ UNCHANGED <<from_pipe, hlines, noise, rpc, response, elapsed, read_log>>
    /\ UNCHANGED <<wfVars, caller, nameVars, textVars>>

\* One iteration of the read loop of caller t in which readline() returns a
\* line.
S_ReadLine(t) ==
    /\ threads[t].pc = "reading"
    /\ from_pipe # <<>>
    /\ LET line == Head(from_pipe) IN
        /\ from_pipe' = Tail(from_pipe)
        /\ threads' = [threads EXCEPT ![t] =
              IF EndsResponse(line, @.response) THEN [@ EXCEPT !.pc = "returned"]
              ELSE IF IsBlank(line) THEN @
              ELSE [@ EXCEPT !.response = Append(@, line)]]
    /\ UNCHANGED <<is_connected, connRest, to_pipe, hlines, noise, rpc, response, elapsed,
                   read_log, ncalls>>
    /\ UNCHANGED <<wfVars, caller, nameVars, textVars>>

\* The read loop of caller t finds nothing to read after the timeout has
\* passed: receive_response raises.
S_Timeout(t) ==
    /\ threads[t].pc = "reading"
    /\ from_pipe = <<>>
    /\ threads' = [threads EXCEPT ![t].pc = "timeout"]
    /\ UNCHANGED <<pipeVars, wfVars, caller, nameVars, textVars>>

InitShared == PipeIdle /\ WorkflowIdle /\ CallerIdle /\ SharedIdle /\ TextIdle /\ NamesIdle

NextShared ==
    \/ \E t \in Callers : S_Send(t)
    \/ \E t \in Callers : S_ReadLine(t)
    \/ \E t \in Callers : S_Timeout(t)
    \/ HostNoise
    \/ HostContent
    \/ HostEnd

SpecShared == InitShared /\ [][NextShared]_vars

(***************************************************************************)
(* Claims about the pipe client, checked under SpecPipe.                   *)
(***************************************************************************)
NonBlank(line) == ~IsBlank(line)

\* C1: receive_response returns only after reading a blank line that follows at
\* least one non-blank line of the response; the blank lines read before any
\* non-blank line do not end the response, and no blank line is part of it:
\* the lines read by a returned call are blank lines, then one or more
\* non-blank lines, then the one blank line that ended it, and the response is
\* exactly the non-blank lines read.
C1_ReturnsAfterBlankAfterContent ==
    /\ rpc = "returned" =>
        LET n == Len(read_log) IN
        /\ n >= 2
        /\ IsBlank(read_log[n])
        /\ \E i \in 1..(n - 1) : NonBlank(read_log[i])
        /\ \A j \in 1..(n - 1) :
              IsBlank(read_log[j]) => \A i \in 1..j : IsBlank(read_log[i])
    /\ rpc \in {"reading", "returned"} =>
        /\ response = SelectSeq(read_log, NonBlank)
        /\ \A i \in 1..Len(response) : NonBlank(response[i])

\* C1 witness: a call that returned after skipping a leading blank line.
C1_Witness ==
    /\ rpc = "returned"
    /\ Len(read_log) >= 3
    /\ IsBlank(read_log[1])
    /\ Len(response) >= 1

\* C2: the wait of one do_command is bounded by the configured timeout: a call
\* that is still waiting has waited no longer than the timeout plus one sleep
\* interval, whatever the inbound pipe delivers.
C2_WaitBoundedByTimeout ==
    rpc = "reading" => elapsed <= Timeout + 1

\* C3: the response a do_command call returns is the reply to the command that
\* same call wrote, also after earlier calls on the connection timed out.
C3_ResponseAnswersOwnCommand ==
    rpc = "returned" => \A i \in 1..Len(response) : response[i].re = ncalls

(***************************************************************************)
(* Claims about the export workflows, checked under SpecExport.            *)
(***************************************************************************)
AllUnmuted(mute) == \A t \in 1..Len(mute) : mute[t] = FALSE

\* C4: track export restore: for N >= 1 tracks and whatever commands of the
\* per-track loop fail, when export_tracks_individually has ended the unmute
\* pass has run and all N tracks are unmuted.
C4_TracksEndUnmuted ==
    (/\ workflow = "tracks"
     /\ pc = "exit"
     /\ num_tracks >= 1
     /\ outcome # "cancelled"
     /\ failed_pc \in {"none", "t_loop"})
    => /\ AllUnmuted(host_mute)
       /\ sent = RestoreSequence(num_tracks)

\* C5: per-track failure isolation: a command of track i's export step that
\* fails is caught inside the loop: the export of every later track is still
\* attempted and the run does not take the fatal-error exit.
C5_TrackFailureIsolated ==
    (/\ workflow = "tracks"
     /\ pc = "exit"
     /\ outcome # "cancelled"
     /\ failed_pc = "t_loop")
    => /\ exit_status = 0
       /\ \A n \in (loop_i + 1)..num_tracks :
             \E x \in 1..Len(exports) : exports[x].item = n - 1

OwnerMuted(clip) ==
    /\ GetTrack(clip, 0) \in 0..(Len(host_mute0) - 1)
    /\ host_mute0[GetTrack(clip, 0) + 1]

ValidTiming(clip) == clip.start >= 0 /\ clip.end > clip.start

HasTrackReference(clip) == clip.has_track /\ clip.track # -1

ResolvesToTrack(clip) == clip.has_track /\ clip.track \in 0..(Len(host_mute0) - 1)

\* All the clips of the project have been gone through.
ClipsSettled == workflow = "clips" /\ outcome \in {"done", "no_unmuted_clips"}

\* The clips for which `Included` holds are exactly those whose command
\* sequence was run; the others were reported as skipped, with no command
\* sent for them and no failure reported.
ClipFilterIs(Included(_)) ==
    /\ workflow = "clips" =>
          \A x \in 1..Len(host_clips) :
             LET clip == host_clips[x] IN
             /\ clip.id \in ran => Included(clip)
             /\ clip.id \in skipped => clip.id \notin (ran \cup failed)
    /\ ClipsSettled =>
          \A x \in 1..Len(host_clips) :
             LET clip == host_clips[x] IN
             /\ Included(clip) => clip.id \in ran
             /\ ~Included(clip) => clip.id \in skipped

C7_IncludedAsClaimed(clip) ==
    ~OwnerMuted(clip) /\ ValidTiming(clip) /\ ResolvesToTrack(clip)

C7_IncludedAsAmended(clip) ==
    ~OwnerMuted(clip) /\ ValidTiming(clip) /\ HasTrackReference(clip)

\* C7 as claimed: the per-clip command sequence is run for a clip if and only
\* if its track's mute flag is false or absent, start >= 0, end > start and its
\* track reference resolves to an existing track index; any other clip is
\* skipped with no command sent.
C7_ClipFilterAsClaimed == ClipFilterIs(C7_IncludedAsClaimed)

\* C7 as amended: the per-clip command sequence is run for a clip if and only
\* if its track's mute flag is false or absent, start >= 0, end > start and the
\* clip has a track reference other than -1, whether or not that index names
\* a track of the query; any other clip is skipped with no command sent and is
\* not reported as a failure.
C7_ClipFilter == ClipFilterIs(C7_IncludedAsAmended)

\* C7 witness: a run that went through all its clips, ran the commands of one
\* and skipped another for its timing or its missing track.
C7_Witness ==
    /\ workflow = "clips"
    /\ outcome = "done"
    /\ ran # {}
    /\ \E x \in 1..Len(host_clips) :
          /\ ~OwnerMuted(host_clips[x])
          /\ host_clips[x].id \in skipped

\* C8: if no clip passes the filter (every clip is on a muted track, has
\* invalid timing or has no track reference), clip export stops before the
\* mute pass: no NewStereoTrack is sent and no mute flag is changed.
C8_NothingToExportStopsEarly ==
    (/\ workflow = "clips"
     /\ \A x \in 1..Len(host_clips) : ~C7_IncludedAsAmended(host_clips[x]))
    => /\ "NewStereoTrack" \notin verbs
       /\ SubSeq(host_mute, 1, Len(host_mute0)) = host_mute0
       /\ Len(host_mute) = Len(host_mute0)

NothingFound == outcome \in {"no_tracks", "no_clips"}

\* C9: empty project: when the project has no tracks, both workflows send
\* only GetInfo queries (no NewStereoTrack, no SetTrackAudio, no Export2), and
\* a run whose queries were answered and parsed ends with the nothing-found
\* outcome and without an error exit status.
C9_EmptyProject ==
    (workflow \in {"tracks", "clips"} /\ Len(host_mute0) = 0) =>
        /\ verbs \subseteq {"GetInfo"}
        /\ exports = <<>>
        /\ Len(host_mute) = 0
        /\ (pc = "exit" /\ outcome \notin {"fatal_audacity", "fatal_json", "parse_error",
                                           "cancelled"})
              => (NothingFound /\ exit_status = 0)
        /\ NothingFound => exit_status = 0

\* C9 witness: the clip workflow has ended on an empty project after its two
\* queries.
C9_Witness ==
    /\ Len(host_mute0) = 0
    /\ workflow = "clips"
    /\ pc = "exit"
    /\ outcome = "no_clips"
    /\ queries = 2

SelectTracksOf(log) == {log[x].a : x \in {y \in 1..Len(log) : log[y].verb = "SelectTracks"}}

\* C10: after the mute pass of clip export and in every state of the per-clip
\* loop, the scratch track (the last index of the track count observed after
\* its creation) is unmuted and every original track is muted; the pass went
\* over all the indices 0..count-1.
C10_MuteSetup ==
    (workflow = "clips" /\ (pc \in {"c_clip", "c_cmd"} \/ outcome = "done")) =>
        /\ num_tracks = Len(host_mute0) + 1
        /\ Len(host_mute) = num_tracks
        /\ temp_track_idx = num_tracks - 1
        /\ \A t \in 0..(num_tracks - 1) : host_mute[t + 1] = (t # temp_track_idx)
        /\ (pc = "c_clip" /\ ran = {}) => SelectTracksOf(sent) = 0..(num_tracks - 1)

\* C10 witness: the last command of a clip is about to be sent in a project
\* whose two tracks were unmuted before the run.
C10_Witness ==
    /\ workflow = "clips"
    /\ pc = "c_cmd"
    /\ step = 15
    /\ Len(host_mute0) = 2
    /\ AllUnmuted(host_mute0)

(***************************************************************************)
(* Claims about the per-clip command sequence, checked under SpecExport.   *)
(***************************************************************************)
VerbsOf(seq) == [x \in 1..Len(seq) |-> seq[x].verb]

NotSelectNone(verb) == verb # "SelectNone"

TimeSelectionsOf(seq) == SelectSeq(seq, LAMBDA c : c.verb = "SelectTime")

\* The order of the commands of one clip, the SelectNone commands that make
\* each track selection exclusive left out.
ClaimedClipOrder ==
    <<"SelectTracks", "SelectTime", "Copy",
      "SelectTracks", "SelectTime", "Delete",
      "SelectTracks", "Paste",
      "SelectTracks", "SelectTime", "Export2">>

\* C11: clips are processed in the order of the filtered list, and the
\* commands of a clip are sent in the order select owning track -> select
\* [start, end] -> Copy -> select scratch -> select a range from 0 -> Delete ->
\* select scratch -> Paste -> select scratch -> select [0, end - start] ->
\* Export2, every track selection preceded by SelectNone; when Copy is sent
\* the selected tracks are exactly the clip's owning track, and when Delete,
\* Paste or Export2 is sent they are exactly the scratch track.
C11_ClipCommandOrder ==
    /\ (workflow = "clips" /\ pc = "c_cmd") =>
          LET clip == clips_to_export[loop_i]
              seq == ClipSequence(clip, temp_track_idx)
              times == TimeSelectionsOf(seq)
              before == {clips_to_export[x].id : x \in 1..(loop_i - 1)}
          IN
          /\ step > 1 => sent = SubSeq(seq, 1, step - 1)
          /\ SelectSeq(VerbsOf(seq), NotSelectNone) = ClaimedClipOrder
          /\ \A x \in 2..Len(seq) :
                seq[x].verb = "SelectTracks" => seq[x - 1].verb = "SelectNone"
          /\ Len(times) = 3
          /\ times[1] = SelectTime(clip.start, clip.end)
          /\ times[2].a = 0 /\ times[2].b > 0
          /\ times[3] = SelectTime(0, clip.end - clip.start)
          /\ seq[step].verb = "Copy" => host_sel = {GetTrack(clip, -1)}
          /\ seq[step].verb \in {"Delete", "Paste", "Export2"} => host_sel = {temp_track_idx}
          /\ ran \ {clip.id} \subseteq before
          /\ before \subseteq (ran \cup skipped)
    /\ workflow = "clips" =>
          /\ \A p \in 1..Len(exports) : exports[p].sel = {temp_track_idx}
          /\ \A p, q \in 1..Len(exports) : p < q => exports[p].item < exports[q].item

\* C11 witness: the Export2 of the second clip is about to be sent, after the
\* first clip was exported, for a clip whose track is not the scratch track.
C11_Witness ==
    /\ workflow = "clips"
    /\ pc = "c_cmd"
    /\ loop_i = 2
    /\ step = 15
    /\ exported_count = 1
    /\ GetTrack(clips_to_export[2], -1) # temp_track_idx

\* C12: each clip is staged in isolation: whatever the durations of the clips,
\* when the Paste of a clip is sent the scratch track holds no audio (the
\* Delete of the wide range has removed all that an earlier clip left).
C12_ScratchEmptyBeforePaste ==
    (/\ workflow = "clips"
     /\ pc = "c_cmd"
     /\ ClipSequence(clips_to_export[loop_i], temp_track_idx)[step].verb = "Paste")
    => host_audio[temp_track_idx + 1] = 0

\* The clips whose command sequence was run to its end.
Completed ==
    (ran \ failed) \ (IF pc = "c_cmd" THEN {clips_to_export[loop_i].id} ELSE {})

\* C13: per-clip failure isolation: when a command of clip k fails, clip k is
\* not counted as exported and no further command of clip k is sent (no
\* command is ever sent for a clip reported as failed, and the counter is the
\* number of clips whose sequence completed); the failure is not fatal (the
\* exit status stays 0), every later clip of the filtered list is still
\* processed, and the run ends with its report.
C13_ClipFailureIsolated ==
    workflow = "clips" =>
        /\ failed \subseteq ran
        /\ failed # {} => (exit_status = 0 /\ outcome \notin {"fatal_audacity", "fatal_json"})
        /\ pc = "c_cmd" => clips_to_export[loop_i].id \notin failed
        /\ (pc \in {"c_clip", "c_cmd"} \/ outcome = "done") =>
              exported_count = Cardinality(Completed)
        /\ outcome = "done" =>
              \A x \in 1..Len(clips_to_export) :
                 ~InvalidClip(clips_to_export[x]) => clips_to_export[x].id \in ran

\* C13 witness: a run that ended with its report after the commands of one clip
\* failed and a later clip was exported.
C13_Witness ==
    /\ workflow = "clips"
    /\ outcome = "done"
    /\ exported_count = 1
    /\ \E p \in 1..Len(exports), k \in failed :
          k < exports[p].item /\ exports[p].item \notin failed

\* The clips that pass the whole filter: track not muted, valid timing, a
\* track reference.
PassedWholeFilter ==
    {x \in 1..Len(host_clips) : C7_IncludedAsAmended(host_clips[x])}

\* C14: the final exported/total report of clip export: total is the number
\* of clips that passed the whole filter (track not muted, valid timing,
\* track reference), exported is the number of those whose sequence completed
\* without failure, and the two are equal when nothing failed.
C14_ReportCountsFilteredClips ==
    (workflow = "clips" /\ outcome = "done") =>
        /\ report[2] = Cardinality(PassedWholeFilter)
        /\ report[1] = Cardinality(ran \ failed)
        /\ failed = {} => report[1] = report[2]

\* C16: cancellation during track export: when a user interrupt arrives in
\* the per-track loop, the unmute pass over all the tracks has run when the
\* cancellation is surfaced: its commands were the last sent and every track
\* is unmuted.
C16_InterruptStillUnmutes ==
    (/\ workflow = "tracks"
     /\ outcome = "cancelled"
     /\ failed_pc = "t_loop")
    => /\ sent = RestoreSequence(num_tracks)
       /\ AllUnmuted(host_mute)

\* C17: scoped disconnect: once a workflow or quick_command has connected,
\* the pipe is connected with both file objects open for as long as its with
\* block runs, and however the block is left (completion, early return,
\* error exit, user interrupt) the pipe is then disconnected, with both file
\* objects released.
C17_ScopedDisconnect ==
    /\ pc \notin {"start", "exit"} =>
          (is_connected /\ to_handle # 0 /\ from_handle # 0)
    /\ (pc = "exit" /\ failed_pc # "start") =>
          (~is_connected /\ to_handle = 0 /\ from_handle = 0 /\ opened = 2)

\* C17 witness: clip export was interrupted during the commands of a clip,
\* after it had connected.
C17_Witness ==
    /\ workflow = "clips"
    /\ outcome = "cancelled"
    /\ failed_pc = "c_cmd"
    /\ opened = 2
    /\ ~is_connected

(***************************************************************************)
(* Claims about the file name search, checked under SpecNames.             *)
(***************************************************************************)
\* name.ext for N = 0 and name_N.ext after it, for the clip at hand.
NthName(N) == IF N = 0 THEN base_output_path ELSE base_output_path * Radix + N

\* C15: file name collision resolution: the path chosen is name_N.ext (name.ext
\* for N = 0) where name.ext, name_1.ext, ..., name_(N-1).ext exist and
\* name_N.ext does not; existence is tested again for every candidate, so
\* also with files created meanwhile the chosen path did not exist when it
\* was tested, and every candidate before it existed.
C15_NextUnusedSuffix ==
    /\ npc = "chosen" =>
          /\ output_path \notin existing
          /\ \E N \in 0..(counter - 1) :
                /\ output_path = NthName(N)
                /\ \A k \in 0..(N - 1) : NthName(k) \in existing
    /\ (npc = "chosen" /\ base_output_path = 0) =>
          \A k \in 0..(output_path - 1) : k \in existing
    /\ npc = "probing" => output_path = NthName(counter - 1)

\* C15 witness: name.ext and name_1.ext existed before the search, no other
\* file was created and name_2.ext was chosen.
C15_Witness ==
    /\ npc = "chosen"
    /\ written = {}
    /\ base_output_path = 0
    /\ clip_exports = <<>>
    /\ existing \cap {0, 1, 2} = {0, 1}
    /\ output_path = 2

\* Every export_audio call of the run that returned had its file created
\* before the next clip was processed.
ExportsCreatedTheirFiles ==
    \A n \in 1..Len(clip_exports) : clip_exports[n].counted => clip_exports[n].created

\* C36: distinct output files within one clip-export run: provided each
\* completed Export2 has created its file before the next clip is processed,
\* no two clips counted as exported in the run are written to the same
\* output path, whether their sanitized names are equal or collide with
\* each other's suffixed names.
C36_DistinctOutputFiles ==
    ExportsCreatedTheirFiles =>
        \A m \in 1..Len(clip_exports), n \in 1..Len(clip_exports) :
            (m # n /\ clip_exports[m].counted /\ clip_exports[n].counted) =>
                clip_exports[m].path # clip_exports[n].path

\* C36 witness: name.ext existed, a clip called name was exported to
\* name_1.ext and after it a clip called name_1 to name_1_1.ext.
C36_Witness ==
    /\ Len(clip_exports) = 2
    /\ ExportsCreatedTheirFiles
    /\ clip_exports[1].counted /\ clip_exports[1].path = 1
    /\ clip_exports[2].counted /\ clip_exports[2].path = Suffixed(1, 1)

\* C37: a clip is counted in exported_count only if the host's reply to its
\* Export2 command reported success: a reply carrying a failure status,
\* returned by do_command without an exception, does not increase the
\* count.
C37_CountedOnlyOnSuccess ==
    \A n \in 1..Len(clip_exports) :
        clip_exports[n].counted => clip_exports[n].reply = "ok"

(***************************************************************************)
(* Claims about connect() and disconnect(), checked under SpecConn.        *)
(***************************************************************************)
NoHandles(c) == c.to_handle = 0 /\ c.from_handle = 0

\* C18: a call of connect() on a pipe that is not connected raises exactly
\* when one of the two pipes does not exist or cannot be opened; after the
\* failure is_connected() is false and send_command raises; a send_command
\* on a pipe that is not connected never writes.
C18_ConnectFailureLeavesDisconnected ==
    /\ (last_call.op = "connect" /\ ~last_call.before.is_connected) =>
          /\ last_call.raised <=> ~last_call.fine
          /\ last_call.raised => (~is_connected /\ SendRaises(Conn, FALSE))
          /\ ~last_call.raised => (is_connected /\ to_handle # 0 /\ from_handle # 0)
    /\ (last_call.op = "send_command" /\ ~last_call.before.is_connected) =>
          last_call.raised

\* C18 witness: connect() has raised after the outbound pipe was opened and
\* the inbound one was not.
C18_Witness ==
    /\ last_call.op = "connect"
    /\ last_call.raised
    /\ ~last_call.before.is_connected
    /\ to_handle # 0
    /\ from_handle = 0

\* C19: connect() on a connected pipe returns without error, opens no file
\* object, replaces neither file object and leaves the pipe connected,
\* however often it is repeated and whatever the state of the two pipes.
C19_ConnectIdempotent ==
    (last_call.op = "connect" /\ last_call.before.is_connected) =>
        /\ ~last_call.raised
        /\ Conn = last_call.before
        /\ is_connected

\* C19 witness: the fourth call on a pipe that was connected once is a
\* connect() on the connected pipe, made when a pipe could not have been opened.
C19_Witness ==
    /\ last_call.op = "connect"
    /\ last_call.before.is_connected
    /\ ~last_call.fine
    /\ calls = 4
    /\ opened = 2

\* C20: disconnect() returns without error from every state, also when a
\* close() raises, with is_connected() false and both file objects cleared;
\* called on a pipe that is already disconnected it changes nothing.
C20_DisconnectAlwaysDisconnects ==
    last_call.op = "disconnect" =>
        /\ ~last_call.raised
        /\ ~is_connected
        /\ NoHandles(Conn)
        /\ opened = last_call.before.opened
        /\ (~last_call.before.is_connected /\ NoHandles(last_call.before)) =>
              Conn = last_call.before

\* C20 witness: disconnect() was called on a connected pipe and a close() raised.
C20_Witness ==
    /\ last_call.op = "disconnect"
    /\ last_call.before.is_connected
    /\ ~last_call.fine

(***************************************************************************)
(* Claims about the ways a workflow ends, checked under SpecExport.        *)
(***************************************************************************)
\* The run ended because the connection could not be made.
ConnectionFailed == outcome = "fatal_audacity" /\ failed_pc = "start"

\* The run ended because the reply to a tracks query or to the clips query
\* did not parse.
ReplyDidNotParse == outcome \in {"parse_error", "fatal_json"}

\* C22: in both workflows a run ended by a connection failure, or by a
\* reply to a tracks or clips query that does not parse, has a non-zero
\* exit status and sent no export command.
C22_FailureExitsNonZero ==
    (workflow \in {"tracks", "clips"} /\ pc = "exit"
        /\ (ConnectionFailed \/ ReplyDidNotParse)) =>
        (exit_status # 0 /\ exports = <<>> /\ "Export2" \notin verbs)

(***************************************************************************)
(* Claims about the scratch track of clip export, checked under            *)
(* SpecExport.                                                             *)
(***************************************************************************)
\* The track selected by the last SelectTracks of log[1..n], -1 if none.
RECURSIVE TrackSelectedAt(_, _)
TrackSelectedAt(log, n) ==
    IF n = 0 THEN -1
    ELSE IF log[n].verb = "SelectTracks" THEN log[n].a
    ELSE TrackSelectedAt(log, n - 1)

\* The commands of a clip that act on the scratch track.
ScratchVerbs == {"Delete", "Paste", "Export2"}

\* C24: a clip export creates at most one track, and once the scratch index
\* is set exactly one was created, by a NewStereoTrack followed by a second
\* tracks query; the index is the last one of the tracks then listed, which
\* is the number of tracks the project had before the run; and each Delete,
\* Paste and Export2 of a clip acts on a selection of that track.
C24_ScratchIndexAfterCreation ==
    workflow = "clips" =>
        /\ Len(host_mute) - Len(host_mute0) \in {0, 1}
        /\ (pc \in {"c_mute", "c_clip", "c_cmd"} \/ outcome = "done") =>
              /\ Len(host_mute) = Len(host_mute0) + 1
              /\ "NewStereoTrack" \in verbs
              /\ queries = 3
              /\ temp_track_idx = Len(host_mute) - 1
              /\ temp_track_idx = Len(track_mute_status)
        /\ pc = "c_cmd" =>
              \A n \in 1..Len(sent) :
                  sent[n].verb \in ScratchVerbs =>
                      TrackSelectedAt(sent, n) = Len(host_mute0)
        /\ \A n \in 1..Len(exports) : exports[n].sel = {Len(host_mute0)}

\* A clip of a project of two tracks was exported from the scratch track.
C24_Witness ==
    /\ workflow = "clips"
    /\ Len(host_mute0) = 2
    /\ temp_track_idx = 2
    /\ exports # <<>>
    /\ outcome = "done"

\* The NewStereoTrack command was sent and answered.
ScratchCreated == "NewStereoTrack" \in verbs /\ failed_pc # "c_new_track"

\* C25: clip export sends no RemoveTracks, and from the moment its
\* NewStereoTrack was answered the project has exactly one track more than
\* before the run, however the run goes on and ends.
C25_ScratchTrackStays ==
    workflow = "clips" =>
        /\ "RemoveTracks" \notin verbs
        /\ ScratchCreated => Len(host_mute) = Len(host_mute0) + 1
        /\ ScratchCreated => Len(host_audio) = Len(host_mute0) + 1

\* A clip export that ended with its report after a clip had failed and
\* another had been exported.
C25_Witness ==
    /\ workflow = "clips"
    /\ outcome = "done"
    /\ failed # {}
    /\ exported_count > 0
    /\ ScratchCreated

\* C26: in both workflows each SetTrackAudio sent comes directly after a
\* SelectTracks of one track (TrackCount = 1, Mode = Set), with no command
\* in between, and when it reaches the host the selection is that track.
C26_SelectBeforeSetTrackAudio ==
    workflow \in {"tracks", "clips"} =>
        /\ \A n \in 1..Len(sent) :
              sent[n].verb = "SetTrackAudio" =>
                  /\ n > 1
                  /\ sent[n - 1].verb = "SelectTracks"
                  /\ sent[n - 1].b = 1
        /\ (sent # <<>> /\ sent[Len(sent)].verb = "SetTrackAudio") =>
              host_sel = {sent[Len(sent) - 1].a} \cap HostTracks(host_mute)

\* The restore pass of a track export of two tracks has just unmuted the
\* second track.
C26_Witness ==
    /\ workflow = "tracks"
    /\ failed_pc = "none"
    /\ Len(host_mute) = 2
    /\ Len(sent) = 4
    /\ sent[4] = SetTrackAudio(FALSE)
    /\ sent[3] = SelectTracks(1)
    /\ "Export2" \in verbs
    /\ AllUnmuted(host_mute)

(***************************************************************************)
(* Claims about the mute flags after a run, checked under SpecExport.      *)
(***************************************************************************)
\* C33: after a completed track export the mute flag of every track is the
\* one it had before the run, whatever the flags were.
C33_TrackExportRestoresMuteFlags ==
    (workflow = "tracks" /\ pc = "exit" /\ outcome = "done") => host_mute = host_mute0

\* The mute pass of clip export left every original track muted and the
\* scratch track unmuted.
OnlyScratchUnmuted ==
    /\ Len(host_mute) = Len(host_mute0) + 1
    /\ \A t \in 1..Len(host_mute) : host_mute[t] = (t <= Len(host_mute0))

WithoutTrailingSentinel(text) ==
    IF EndsWith(text, Sentinel) THEN SubSeq(text, 1, Len(text) - Len(Sentinel)) ELSE text

\* C23: the text returned is the accumulated lines (without the white space
\* around them) with only the status line at their end removed: anything
\* else, the text of the status line elsewhere included, is returned as it
\* was read.
C23_OnlyTrailingSentinelRemoved ==
    (text_pc = "done" /\ text_in.fn = "receive_response") =>
        text_out = Strip(WithoutTrailingSentinel(
                            Strip(Accumulated(text_in.lines), Whitespace)), Whitespace)

(***************************************************************************)
(* Claims about file names, checked under SpecText.                        *)
(***************************************************************************)
\* C27: sanitize_filename applied to a name it returned gives that name
\* again, for every input, the names longer than the length limit included.
C27_SanitizeIdempotent ==
    (text_pc = "again" /\ text_in.fn = "sanitize_filename") => text_out = text_in.name

\* 'take_My_Clip_.flac'
TakeMyClipFlac ==
    <<"t", "a", "k", "e", "_", "M", "y", "_", "C", "l", "i", "p", "_", ".",
      "f", "l", "a", "c">>

\* Nothing for sanitize_filename to remove, shorten or stand in for.
PlainName(name) ==
    /\ name # <<>>
    /\ Len(name) <= NameLimit
    /\ name[1] \notin {".", " "}
    /\ name[Len(name)] \notin {".", " "}

\* C28: the file name tried first for a clip is the prefix, the sanitized
\* clip name, a dot and the extension; in the sanitized name each invalid
\* character of the clip name is an underscore and every other character
\* is kept; the clip 'My:Clip*' with prefix 'take_' and extension 'flac'
\* gives 'take_My_Clip_.flac'.
C28_FirstCandidateName ==
    (text_pc = "done" /\ text_in.fn = "output_filename") =>
        LET safe == sanitize_filename(text_in.name) IN
        /\ text_out = text_in.prefix \o safe \o <<".">> \o text_in.file_extension
        /\ \A c \in InvalidChars : \A n \in 1..Len(safe) : safe[n] # c
        /\ PlainName(text_in.name) =>
              /\ Len(safe) = Len(text_in.name)
              /\ \A n \in 1..Len(safe) :
                    safe[n] = IF text_in.name[n] \in InvalidChars THEN "_"
                              ELSE text_in.name[n]
        /\ (text_in.name = MyClip /\ text_in.prefix = TakePrefix
                /\ text_in.file_extension = Flac) => text_out = TakeMyClipFlac

\* The file name of the clip 'My:Clip*' with prefix 'take_' and extension
\* 'flac' was made.
C28_Witness ==
    /\ text_pc = "done"
    /\ text_in.fn = "output_filename"
    /\ text_in.name = MyClip
    /\ text_in.prefix = TakePrefix
    /\ text_in.file_extension = Flac
    /\ text_out = TakeMyClipFlac

(***************************************************************************)
(* Claims about the text of the commands, checked under SpecText.          *)
(***************************************************************************)
\* The verb and the keys of each method, in the order of its parameters.
VerbOf(method) ==
    CASE method = "open_project" -> "OpenProject2:"
      [] method = "save_project" -> "SaveProject2:"
      [] method = "select_frequencies" -> "SelectFrequencies:"
      [] method = "set_track_status" -> "SetTrackStatus:"
      [] method = "set_track_audio" -> "SetTrackAudio:"
      [] method = "set_clip" -> "SetClip:"
      [] method = "set_envelope" -> "SetEnvelope:"
      [] method = "set_label" -> "SetLabel:"
      [] method = "set_project" -> "SetProject:"
      [] method = "set_preference" -> "SetPreference:"
      [] method = "normalize" -> "Normalize:"
      [] method = "compressor" -> "Compressor:"

DeclaredKeys(method) ==
    CASE method = "open_project" -> <<"Filename=", "AddToHistory=">>
      [] method = "save_project" -> <<"Filename=", "AddToHistory=", "Compress=">>
      [] method = "select_frequencies" -> <<"High=", "Low=">>
      [] method = "set_track_status" -> <<"Name=", "Selected=", "Focused=">>
      [] method = "set_track_audio" -> <<"Mute=", "Solo=", "Gain=", "Pan=">>
      [] method = "set_clip" -> <<"At=", "Color=", "Start=">>
      [] method = "set_envelope" -> <<"Time=", "Value=", "Delete=">>
      [] method = "set_label" -> <<"Label=", "Text=", "Start=", "End=", "Selected=">>
      [] method = "set_project" -> <<"Name=", "Rate=", "X=", "Y=", "Width=", "Height=">>
      [] method = "set_preference" -> <<"Name=", "Value=", "Reload=">>
      [] method = "normalize" ->
            <<"PeakLevel=", "ApplyGain=", "RemoveDcOffset=", "StereoIndependent=">>
      [] method = "compressor" ->
            <<"Threshold=", "NoiseFloor=", "Ratio=", "AttackTime=", "ReleaseTime=",
              "Normalize=">>

\* The positions of the boolean parameters of each method.
BooleanParams(method) ==
    CASE method = "open_project" -> {2}
      [] method = "save_project" -> {2, 3}
      [] method = "set_track_status" -> {2, 3}
      [] method = "set_track_audio" -> {1, 2}
      [] method = "set_envelope" -> {3}
      [] method = "set_label" -> {5}
      [] method = "set_preference" -> {3}
      [] method = "normalize" -> {2, 3, 4}
      [] method = "compressor" -> {6}
      [] OTHER -> {}

\* The piece that follows the key in the command, "" if the key is not there.
ValueOf(command, key) ==
    LET at == {n \in 1..(Len(command) - 1) : command[n] = key} IN
    IF at = {} THEN "" ELSE command[(CHOOSE n \in at : TRUE) + 1]

\* C29: in the command of every method with a boolean parameter, a boolean
\* argument that is passed appears after its key as 1 when it is true and as
\* 0 when it is false.
C29_BooleansAsZeroOne ==
    (text_pc = "done" /\ text_in.fn = "command") =>
        \A q \in BooleanParams(text_in.method) :
            text_in.args[q] # None =>
                ValueOf(text_out, DeclaredKeys(text_in.method)[q])
                    = IF text_in.args[q][1] THEN "1" ELSE "0"

\* The methods all of whose parameters may be left out.
OptionalMethods ==
    {"select_frequencies", "set_track_status", "set_track_audio", "set_clip",
     "set_envelope", "set_project"}

\* The keys of the parameters that were passed, in declaration order.
RECURSIVE ProvidedKeys(_, _)
ProvidedKeys(keys, args) ==
    IF keys = <<>> THEN <<>>
    ELSE (IF Head(args) = None THEN <<>> ELSE <<Head(keys)>>)
            \o ProvidedKeys(Tail(keys), Tail(args))

IsKey(piece) ==
    piece \in {"High=", "Low=", "Name=", "Selected=", "Focused=", "Mute=", "Solo=",
               "Gain=", "Pan=", "At=", "Color=", "Start=", "Time=", "Value=",
               "Delete=", "Rate=", "X=", "Y=", "Width=", "Height="}

IsSpace(piece) == piece = " "

\* C30: the command of a method whose parameters are all optional is the
\* verb with its colon followed, for each parameter passed and for no
\* other, by a space, its key and a value, in declaration order; when no
\* parameter is passed it is the verb with its colon alone.
C30_OptionalParameters ==
    (text_pc = "done" /\ text_in.fn = "command" /\ text_in.method \in OptionalMethods) =>
        LET provided == ProvidedKeys(DeclaredKeys(text_in.method), text_in.args) IN
        /\ text_out[1] = VerbOf(text_in.method)
        /\ SelectSeq(text_out, IsKey) = provided
        /\ Len(SelectSeq(text_out, IsSpace)) = Len(provided)
        /\ \A n \in 1..Len(text_out) :
              IsKey(text_out[n]) =>
                  /\ text_out[n - 1] = " "
                  /\ n < Len(text_out)
                  /\ ~IsKey(text_out[n + 1]) /\ ~IsSpace(text_out[n + 1])
        /\ provided = <<>> => text_out = <<VerbOf(text_in.method)>>
        /\ text_out[Len(text_out)] # " "

\* set_track_audio(solo=False, pan=1): the first and the third parameter
\* are left out, and one of those passed is false.
C30_Witness ==
    /\ text_pc = "done"
    /\ text_in.fn = "command"
    /\ text_in.method = "set_track_audio"
    /\ text_in.args = <<None, <<FALSE>>, None, <<1>>>>
    /\ text_out = <<"SetTrackAudio:", " ", "Solo=", "0", " ", "Pan=", "1">>

\* The methods of Commands that take a file path.
PathMethods == {"open_project", "save_project", "import_audio", "export_audio"}

\* C31: the command of a method that takes a file path holds no backslash,
\* whatever the path passed.
C31_PathsUseForwardSlashes ==
    (text_pc = "done" /\ text_in.fn = "command" /\ text_in.method \in PathMethods) =>
        \A n \in 1..Len(text_out) : text_out[n] # "\\"

(***************************************************************************)
(* Claims about callers sharing a pipe, checked under SpecShared.          *)
(***************************************************************************)
\* C32: when two callers use do_command on the same pipe, a command is
\* written only after the response to the command written before it was
\* read to its end (no two callers are between their write and the end of
\* their read at once), and a caller whose call returns got the lines of
\* the reply to its own command only.
C32_NoOverlapOnOneConnection ==
    /\ \A t \in Callers, u \in Callers :
          (threads[t].pc = "reading" /\ threads[u].pc = "reading") => t = u
    /\ \A t \in Callers :
          threads[t].pc = "returned" =>
              \A n \in 1..Len(threads[t].response) :
                  threads[t].response[n].re = threads[t].cmd

(***************************************************************************)
(* Claims about do_command(), checked under SpecConn.                      *)
(***************************************************************************)
\* The steps of a do_command() call that began with the flag `connected`.
StepsOfDoCommand(connected) ==
    LET connects == IF connected THEN <<>> ELSE <<"connect">> IN
    {connects, connects \o <<"write">>, connects \o <<"write", "flush", "read">>}

\* C21: a do_command() call on a pipe that is not connected connects first,
\* and the write comes only after it; what it writes is the command
\* followed by one line feed, flushed before the reply is read; and a call
\* whose endpoints, write and reply are all fine succeeds whatever happened
\* to the object before (a failed command, a disconnect), leaving it
\* connected.
C21_DoCommandConnectsThenWrites ==
    last_call.op = "do_command" =>
        /\ last_call.events \in StepsOfDoCommand(last_call.before.is_connected)
        /\ last_call.written # <<>> <=>
              (last_call.events # <<>> /\ last_call.events[Len(last_call.events)] = "read")
        /\ last_call.written # <<>> =>
              /\ Len(last_call.written) = Len(last_call.command) + 1
              /\ SubSeq(last_call.written, 1, Len(last_call.command)) = last_call.command
              /\ last_call.written[Len(last_call.written)] = LF
        /\ last_call.fine => (~last_call.raised /\ is_connected /\ last_call.written # <<>>)

\* A do_command() call on a pipe that was disconnected after an earlier
\* do_command() had failed: it connected again and succeeded.
C21_Witness ==
    /\ last_call.op = "do_command"
    /\ ~last_call.before.is_connected
    /\ last_call.before.opened > 0
    /\ last_call.after_failure
    /\ ~last_call.raised
    /\ last_call.events = <<"connect", "write", "flush", "read">>

(***************************************************************************)
(* Claims about the handles of the pipe, checked under SpecConn.           *)
(***************************************************************************)
\* C34: after any sequence of connect, disconnect, send_command and
\* do_command calls, whatever fails in them, is_connected() is true exactly
\* when both file objects are open, and a pipe that is not connected holds
\* no open file object.
C34_HandlesMatchFlag ==
    /\ is_connected <=> (to_handle # 0 /\ from_handle # 0)
    /\ ~is_connected => (to_handle = 0 /\ from_handle = 0)

====
